---- MODULE Spec2Model ----
(***************************************************************************)
(* Model of the molecule-shapes simulation core: the Molecule aggregate    *)
(* (groups, bonds, change notifications), the VSEPRMolecule and            *)
(* RealMolecule update policies, RealMoleculeShape, the MoleculeView that  *)
(* mirrors a molecule, the multi-pointer drag listener of                  *)
(* MoleculeShapesScreenView and MoleculeShapesModel.step.                  *)
(*                                                                         *)
(* Numbers are fixed point: a length, a coordinate, a time or an error e   *)
(* is held as the integer 1000 * e.                                        *)
(***************************************************************************)
EXTENDS Integers, Sequences, FiniteSets, TLC

VARIABLES
  molecule,             \* the Molecule held by model.moleculeProperty
  userControlled,       \* PairGroup.userControlledProperty, by group id
  nextId,               \* the next PairGroup id (ids are unique and monotonic)
  view,                 \* the MoleculeView's view arrays
  pointers,             \* per pointer: pressed, dragMode, draggedParticle
  draggedParticleCount, \* closure variable of the screen view
  isRotating,           \* closure variable of the screen view
  build,                \* which revision of MoleculeShapesModel is running
  lastOp,               \* the most recent operation and what it reported
  lastEvents,           \* notifications emitted by the most recent operation
  tick,                 \* what the most recent update(dt) did
  shape,                \* model.realMoleculeShapeProperty (real screen)
  showRealView,         \* model.showRealViewProperty (real screen)
  call,                 \* the most recent call of a library function: arguments and result
  showLonePairs,        \* model.showLonePairsProperty
  moleculeShapesColors, \* MoleculeShapesColors: the color of each key, and what was applied
  local,                \* a LocalMaterial, LocalTexture or LocalGeometry: master and copies
  screenView            \* the screen view's pool of angle labels and its MoleculeView

vars == << molecule, userControlled, nextId, view, pointers,
           draggedParticleCount, isRotating, build, lastOp, lastEvents,
           tick, shape, showRealView, call, showLonePairs, moleculeShapesColors,
           local, screenView >>

\* the state of the shared objects beside the model and its view
libraryVars == << moleculeShapesColors, local, screenView >>

----------------------------------------------------------------------------
(* Bounds of the model *)

\* largest PairGroup id the model hands out (ids start at 0, the central atom)
MaxGroupId == 3

\* pointers (mouse, fingers) that can press at the same time
NumPointers == 2

\* terminal lone pairs addTerminalLonePairs is asked for at most
MaxTerminalLonePairs == 1

----------------------------------------------------------------------------
(* Fixed-point arithmetic and Vector3 *)

SCALE == 1000

\* JavaScript division truncates toward zero once rounded to the grid
Div(a, b) == IF a >= 0 THEN a \div b ELSE -((-a) \div b)

Min(a, b) == IF a <= b THEN a ELSE b

Max(a, b) == IF a >= b THEN a ELSE b

RECURSIVE SqrtSearch(_, _, _)
SqrtSearch(n, lo, hi) ==
  IF lo >= hi THEN lo
  ELSE LET mid == (lo + hi + 1) \div 2
       IN IF mid * mid <= n THEN SqrtSearch(n, mid, hi)
                            ELSE SqrtSearch(n, lo, mid - 1)

Isqrt(n) == SqrtSearch(n, 0, 46340)

ZeroVector == << 0, 0, 0 >>

\* Vector3.magnitude
Magnitude(v) == Isqrt(v[1] * v[1] + v[2] * v[2] + v[3] * v[3])

\* Vector3.times / multiplyScalar, the scalar in fixed point
Times(v, s) == << Div(v[1] * s, SCALE), Div(v[2] * s, SCALE), Div(v[3] * s, SCALE) >>

\* Vector3.normalized / normalize
Normalized(v) ==
  LET m == Magnitude(v)
  IN << Div(v[1] * SCALE, m), Div(v[2] * SCALE, m), Div(v[3] * SCALE, m) >>

\* Vector3.setMagnitude
SetMagnitude(v, m) ==
  LET old == Magnitude(v)
  IN << Div(v[1] * m, old), Div(v[2] * m, old), Div(v[3] * m, old) >>

----------------------------------------------------------------------------
(* Sequence helpers *)

Range(s) == { s[i] : i \in 1..Len(s) }

RECURSIVE RemoveFirst(_, _)
\* lodash / splice idiom: drop the first element equal to x, keep the rest
RemoveFirst(s, x) ==
  IF s = << >> THEN << >>
  ELSE IF Head(s) = x THEN Tail(s)
  ELSE << Head(s) >> \o RemoveFirst(Tail(s), x)

Count(s, x) == Cardinality({ i \in 1..Len(s) : s[i] = x })

RECURSIVE SumSeq(_)
SumSeq(s) == IF s = << >> THEN 0 ELSE Head(s) + SumSeq(Tail(s))

NoGroup == -1

----------------------------------------------------------------------------
(* PairGroup constants *)

BONDED_PAIR_DISTANCE == 10000

LONE_PAIR_DISTANCE == 7000

----------------------------------------------------------------------------
(* Bond and Molecule: groups, bonds and the queries derived from them *)

centralAtom == 0

Bond(a, b, order, length) == [ a |-> a, b |-> b, order |-> order, length |-> length ]

NoBond == Bond(NoGroup, NoGroup, 0, 0)

BondContains(bd, g) == bd.a = g \/ bd.b = g

GetOtherAtom(bd, g) == IF bd.a = g THEN bd.b ELSE bd.a

GetBondsAround(m, g) == SelectSeq(m.bonds, LAMBDA bd : BondContains(bd, g))

GetNeighbors(m, g) ==
  LET bs == GetBondsAround(m, g)
  IN [ i \in 1..Len(bs) |-> GetOtherAtom(bs[i], g) ]

GetNeighborCount(m, g) == Len(GetBondsAround(m, g))

\* the bond whose child end is g (a group is the `a` end of its parent bond)
GetParentBond(m, g) == CHOOSE bd \in Range(m.bonds) : bd.a = g

GetParent(m, g) == GetParentBond(m, g).b

RadialGroups(m) == GetNeighbors(m, centralAtom)

Atoms(m) == SelectSeq(m.groups, LAMBDA g : ~m.isLonePair[g])

RadialAtoms(m) == SelectSeq(RadialGroups(m), LAMBDA g : ~m.isLonePair[g])

RadialLonePairs(m) == SelectSeq(RadialGroups(m), LAMBDA g : m.isLonePair[g])

GetDistantLonePairs(m) ==
  SelectSeq(m.groups, LAMBDA g : m.isLonePair[g] /\ GetParent(m, g) # centralAtom)

\* the JavaScript value undefined, apart from every length
Undefined == -1

\* a Molecule right after addCentralAtom( new PairGroup( new Vector3(), false ) ),
\* constructed without a bondLengthOverride
EmptyMolecule(real) ==
  [ isReal     |-> real,
    bondLengthOverride |-> Undefined,
    groups     |-> << centralAtom >>,
    bonds      |-> << >>,
    isLonePair |-> [ g \in { centralAtom } |-> FALSE ],
    position   |-> [ g \in { centralAtom } |-> ZeroVector ],
    ideal      |-> [ g \in { } |-> ZeroVector ],
    rotation   |-> "identity" ]

Event(kind, group, lonePair, bond) ==
  [ kind |-> kind, group |-> group, lonePair |-> lonePair, bond |-> bond ]

\* mutant of addGroupAndBond: the parent is not checked
AddGroupAndBondUnchecked(m, g, parent, order, length, lonePair, pos) ==
  LET bd == Bond(g, parent, order, IF length = 0 THEN Magnitude(pos) ELSE length)
  IN [ m |-> [ m EXCEPT !.groups = Append(@, g),
                        !.bonds = Append(@, bd),
                        !.isLonePair = [ x \in DOMAIN @ \cup { g } |->
                                         IF x = g THEN lonePair ELSE @[x] ],
                        !.position = [ x \in DOMAIN @ \cup { g } |->
                                       IF x = g THEN pos ELSE @[x] ] ],
         events |-> << Event("bondAdded", NoGroup, FALSE, bd),
                       Event("bondChanged", NoGroup, FALSE, bd),
                       Event("groupAdded", g, lonePair, NoBond) >>,
         failed |-> FALSE ]

\* Molecule.addGroupAndBond: the group and its bond go in together, the
\* notifications follow once both are in; a parent that is not in the
\* molecule is a precondition violation and nothing is changed or emitted.
AddGroupAndBond(m, g, parent, order, length, lonePair, pos) ==
  IF parent \notin Range(m.groups) \/ g \in Range(m.groups)
  THEN [ m |-> m, events |-> << >>, failed |-> TRUE ]
  ELSE LET len == IF length = 0
                  THEN Magnitude(<< pos[1] - m.position[parent][1],
                                    pos[2] - m.position[parent][2],
                                    pos[3] - m.position[parent][3] >>)
                  ELSE length
           bd  == Bond(g, parent, order, len)
       IN [ m |-> [ m EXCEPT !.groups = Append(@, g),
                             !.bonds = Append(@, bd),
                             !.isLonePair = [ x \in DOMAIN @ \cup { g } |->
                                              IF x = g THEN lonePair ELSE @[x] ],
                             !.position = [ x \in DOMAIN @ \cup { g } |->
                                            IF x = g THEN pos ELSE @[x] ] ],
              events |-> << Event("bondAdded", NoGroup, FALSE, bd),
                            Event("bondChanged", NoGroup, FALSE, bd),
                            Event("groupAdded", g, lonePair, NoBond) >>,
              failed |-> FALSE ]

\* the groups whose parent is g
Children(m, g) == SelectSeq(m.groups, LAMBDA x : x # centralAtom /\ x # g /\ GetParent(m, x) = g)

\* removal of one group together with the bonds around it
RemoveOne(m, g) ==
  LET around == GetBondsAround(m, g)
      keep   == Range(m.groups) \ { g }
  IN [ m |-> [ m EXCEPT !.groups = SelectSeq(@, LAMBDA x : x # g),
                        !.bonds = SelectSeq(@, LAMBDA bd : ~BondContains(bd, g)),
                        !.isLonePair = [ x \in keep |-> @[x] ],
                        !.position = [ x \in keep |-> @[x] ],
                        !.ideal = [ x \in (DOMAIN @) \ { g } |-> @[x] ] ],
         events |-> [ i \in 1..Len(around) |-> Event("bondRemoved", NoGroup, FALSE, around[i]) ]
                    \o << Event("groupRemoved", g, m.isLonePair[g], NoBond) >>
                    \o [ i \in 1..Len(around) |-> Event("bondChanged", NoGroup, FALSE, around[i]) ] ]

\* mutant of removeGroup: what hangs from the group is left in the molecule
RemoveGroupOnly(m, g) == RemoveOne(m, g)

RECURSIVE RemoveAll(_, _)
RECURSIVE RemoveGroup(_, _)
\* Molecule.removeGroup: the group, what hangs from it, and the incident bonds
RemoveGroup(m, g) ==
  LET below == RemoveAll(m, Children(m, g))
      self  == RemoveOne(below.m, g)
  IN [ m |-> self.m, events |-> below.events \o self.events ]

RemoveAll(m, gs) ==
  IF gs = << >> THEN [ m |-> m, events |-> << >> ]
  ELSE LET first == RemoveGroup(m, Head(gs))
           rest  == RemoveAll(first.m, Tail(gs))
       IN [ m |-> rest.m, events |-> first.events \o rest.events ]

----------------------------------------------------------------------------
(* MoleculeView: the view arrays and the four notification handlers *)

EmptyView ==
  [ atomViews |-> << >>, lonePairViews |-> << >>, bondViews |-> << >>,
    angleViews |-> << >>, radialViews |-> << >> ]

ViewAddGroup(v, m, group) ==
  IF group = centralAtom THEN v
  ELSE LET parentAtom == GetParent(m, group)
           radial     == IF parentAtom = centralAtom
                         THEN Append(v.radialViews, group)
                         ELSE v.radialViews
       IN IF m.isLonePair[group]
          THEN [ v EXCEPT !.lonePairViews = Append(@, group),
                          !.radialViews = radial ]
          ELSE [ v EXCEPT !.atomViews = Append(@, group),
                          !.angleViews = @ \o [ i \in 1..Len(v.atomViews) |->
                                                [ aGroup |-> v.atomViews[i], bGroup |-> group ] ],
                          !.radialViews = radial ]

\* mutant of MoleculeView.removeGroup: the view stays in radialViews
ViewRemoveGroupKeepRadial(v, group, lonePair) ==
  IF lonePair
  THEN [ v EXCEPT !.lonePairViews = RemoveFirst(@, group) ]
  ELSE [ v EXCEPT !.atomViews = RemoveFirst(@, group),
                  !.angleViews = SelectSeq(@, LAMBDA av : av.aGroup # group /\ av.bGroup # group) ]

ViewRemoveGroup(v, group, lonePair) ==
  IF lonePair
  THEN [ v EXCEPT !.lonePairViews = RemoveFirst(@, group),
                  !.radialViews = RemoveFirst(@, group) ]
  ELSE [ v EXCEPT !.atomViews = RemoveFirst(@, group),
                  !.angleViews = SelectSeq(@, LAMBDA av : av.aGroup # group /\ av.bGroup # group),
                  !.radialViews = RemoveFirst(@, group) ]

ViewAddBond(v, m, bond) ==
  LET group == GetOtherAtom(bond, centralAtom)
  IN IF ~m.isLonePair[group]
     THEN [ v EXCEPT !.bondViews = Append(@, bond) ]
     ELSE v

ViewRemoveBond(v, bond) ==
  [ v EXCEPT !.bondViews = SelectSeq(@, LAMBDA b : b # bond) ]

\* one notification delivered to the view's listener for its kind
ViewHandle(v, m, e) ==
  CASE e.kind = "groupAdded"   -> ViewAddGroup(v, m, e.group)
    [] e.kind = "groupRemoved" -> ViewRemoveGroup(v, e.group, e.lonePair)
    [] e.kind = "bondAdded"    -> ViewAddBond(v, m, e.bond)
    [] e.kind = "bondRemoved"  -> ViewRemoveBond(v, e.bond)
    [] OTHER                   -> v

RECURSIVE ViewHandleAll(_, _, _)
ViewHandleAll(v, m, es) ==
  IF es = << >> THEN v
  ELSE ViewHandleAll(ViewHandle(v, m, Head(es)), m, Tail(es))

RECURSIVE ViewAddGroups(_, _, _)
ViewAddGroups(v, m, gs) ==
  IF gs = << >> THEN v ELSE ViewAddGroups(ViewAddGroup(v, m, Head(gs)), m, Tail(gs))

RECURSIVE ViewAddBonds(_, _, _)
ViewAddBonds(v, m, bs) ==
  IF bs = << >> THEN v ELSE ViewAddBonds(ViewAddBond(v, m, Head(bs)), m, Tail(bs))

\* the MoleculeView constructor's initial setup for an existing molecule
NewMoleculeView(m) ==
  ViewAddBonds(
    ViewAddGroups(
      ViewAddGroups(EmptyView, m, RadialGroups(m)),
      m, GetDistantLonePairs(m)),
    m, GetBondsAround(m, centralAtom))

----------------------------------------------------------------------------
(* GeometryConfiguration: the ideal unit vectors by steric number *)

geometries ==
  [ n \in 0..6 |->
      CASE n = 0 -> << >>
        [] n = 1 -> << << 1000, 0, 0 >> >>
        [] n = 2 -> << << 1000, 0, 0 >>, << -1000, 0, 0 >> >>
        [] n = 3 -> << << 1000, 0, 0 >>, << -500, 866, 0 >>, << -500, -866, 0 >> >>
        [] n = 4 -> << << 0, 0, 1000 >>, << 943, 0, -333 >>,
                       << -471, 816, -333 >>, << -471, -816, -333 >> >>
        [] n = 5 -> << << 0, 1000, 0 >>, << 0, -500, 866 >>, << 0, -500, -866 >>,
                       << 1000, 0, 0 >>, << -1000, 0, 0 >> >>
        [] n = 6 -> << << 0, 0, 1000 >>, << 0, 0, -1000 >>, << 0, 1000, 0 >>,
                       << 0, -1000, 0 >>, << 1000, 0, 0 >>, << -1000, 0, 0 >> >> ]

\* mutant of the lookup: every orientation is the configuration's first one
GetConfigurationRepeated(numberOfGroups) ==
  [ i \in 1..Len(geometries[numberOfGroups]) |-> geometries[numberOfGroups][1] ]

GetConfiguration(numberOfGroups) == geometries[numberOfGroups]

----------------------------------------------------------------------------
(* RealAtomLocation and RealMoleculeShape *)

USE_SIMPLIFIED_BOND_LENGTH == TRUE

\* `literal` remembers the coordinates the atom was created with
RealAtomLocation(position, lonePairCount) ==
  [ position     |-> position,
    orientation  |-> IF Magnitude(position) > 0 THEN Normalized(position) ELSE position,
    lonePairCount |-> lonePairCount,
    literal      |-> position ]

\* new RealMoleculeShape( displayName, bondLengthOverride )
RealMoleculeShape(displayName, length) ==
  [ displayName        |-> displayName,
    bondLengthOverride |-> Div(length * 55, 10),
    atoms              |-> << >>,
    bonds              |-> << >>,
    centralAtomCount   |-> 0 ]

\* within a shape the central atom is atom 1 and bond i joins atom i + 1 to it
ShapeAddCentralAtom(s, atom) == [ s EXCEPT !.atoms = << atom >> ]

ShapeCentralAtom(s) == s.atoms[1]

\* mutant of addRadialAtom: the atom keeps the coordinates it was created with
ShapeAddRadialAtomVerbatim(s, atom, bondOrder) ==
  [ s EXCEPT !.atoms = Append(@, atom),
             !.bonds = Append(@, [ atom   |-> Len(s.atoms) + 1,
                                   order  |-> bondOrder,
                                   length |-> Magnitude(atom.position) ]),
             !.centralAtomCount = @ + 1 ]

\* mutant of addRadialAtom: the atom is moved to the override length but
\* the bond keeps the length of the coordinates the atom was created with
ShapeAddRadialAtomOwnBondLength(s, atom, bondOrder) ==
  [ s EXCEPT !.atoms = Append(@, [ atom EXCEPT !.position =
                                     Times(Normalized(@), s.bondLengthOverride) ]),
             !.bonds = Append(@, [ atom   |-> Len(s.atoms) + 1,
                                   order  |-> bondOrder,
                                   length |-> Magnitude(atom.position) ]),
             !.centralAtomCount = @ + 1 ]

ShapeAddRadialAtom(s, atom, bondOrder) ==
  LET placed == IF USE_SIMPLIFIED_BOND_LENGTH
                THEN [ atom EXCEPT !.position = Times(Normalized(@), s.bondLengthOverride) ]
                ELSE atom
  IN [ s EXCEPT !.atoms = Append(@, placed),
                !.bonds = Append(@, [ atom   |-> Len(s.atoms) + 1,
                                      order  |-> bondOrder,
                                      length |-> IF USE_SIMPLIFIED_BOND_LENGTH
                                                 THEN s.bondLengthOverride
                                                 ELSE Magnitude(atom.position) ]),
                !.centralAtomCount = @ + 1 ]

BERYLLIUM_CHLORIDE ==
  ShapeAddRadialAtom(
    ShapeAddRadialAtom(
      ShapeAddCentralAtom(RealMoleculeShape("BeCl2", 1800), RealAtomLocation(ZeroVector, 0)),
      RealAtomLocation(<< 1800, 0, 0 >>, 3), 1),
    RealAtomLocation(<< -1800, 0, 0 >>, 3), 1)

CARBON_DIOXIDE ==
  ShapeAddRadialAtom(
    ShapeAddRadialAtom(
      ShapeAddCentralAtom(RealMoleculeShape("CO2", 1163), RealAtomLocation(ZeroVector, 0)),
      RealAtomLocation(<< -1163, 0, 0 >>, 2), 2),
    RealAtomLocation(<< 1163, 0, 0 >>, 2), 2)

\* H2O with the bond directions rounded to (0.8, -0.6, 0) and (-0.8, -0.6, 0)
WATER ==
  ShapeAddRadialAtom(
    ShapeAddRadialAtom(
      ShapeAddCentralAtom(RealMoleculeShape("H2O", 950), RealAtomLocation(ZeroVector, 2)),
      RealAtomLocation(<< 760, -570, 0 >>, 0), 1),
    RealAtomLocation(<< -760, -570, 0 >>, 0), 1)

\* createMoleculeShape: the callback adds the central atom, then the radial
\* atoms in order; a radial atom is << position, lonePairCount, bondOrder >>
RECURSIVE AddRadialAtoms(_, _)
AddRadialAtoms(s, radialAtoms) ==
  IF radialAtoms = << >>
  THEN s
  ELSE AddRadialAtoms(
         ShapeAddRadialAtom(s, RealAtomLocation(Head(radialAtoms)[1], Head(radialAtoms)[2]),
                            Head(radialAtoms)[3]),
         Tail(radialAtoms))

CreateMoleculeShape(name, length, centralLonePairCount, radialAtoms) ==
  AddRadialAtoms(
    ShapeAddCentralAtom(RealMoleculeShape(name, length),
                        RealAtomLocation(ZeroVector, centralLonePairCount)),
    radialAtoms)

\* the remaining predefined shapes, coordinates in thousandths
BORON_TRIFLUORIDE ==
  CreateMoleculeShape("BF3", 1313, 0,
    << << << 1313, 0, 0 >>, 3, 1 >>,
       << << -656, 1137, 0 >>, 3, 1 >>,
       << << -657, -1137, 0 >>, 3, 1 >> >>)

BROMINE_PENTAFLUORIDE ==
  CreateMoleculeShape("BrF5", 1774, 1,
    << << << 0, -1689, 0 >>, 3, 1 >>,
       << << 1767, -161, 0 >>, 3, 1 >>,
       << << 0, -161, 1767 >>, 3, 1 >>,
       << << -1767, -161, 0 >>, 3, 1 >>,
       << << 0, -161, -1767 >>, 3, 1 >> >>)

METHANE ==
  CreateMoleculeShape("CH4", 1087, 0,
    [ i \in 1..4 |-> << Times(GetConfiguration(4)[i], 1087), 0, 1 >> ])

CHLORINE_TRIFLUORIDE ==
  CreateMoleculeShape("ClF3", 1698, 2,
    << << << 0, -1598, 0 >>, 3, 1 >>,
       << << 1696, -74, 0 >>, 3, 1 >>,
       << << -1696, -74, 0 >>, 3, 1 >> >>)

AMMONIA ==
  CreateMoleculeShape("NH3", 1017, 1,
    << << << 949, -366, 0 >>, 0, 1 >>,
       << << -474, -366, 822 >>, 0, 1 >>,
       << << -474, -366, -822 >>, 0, 1 >> >>)

PHOSPHORUS_PENTACHLORIDE ==
  CreateMoleculeShape("PCl5", 2020, 0,
    << << << 2140, 0, 0 >>, 3, 1 >>,
       << << -2140, 0, 0 >>, 3, 1 >>,
       << << 0, 2020, 0 >>, 3, 1 >>,
       << << 0, -1010, 1749 >>, 3, 1 >>,
       << << 0, -1010, -1749 >>, 3, 1 >> >>)

SULFUR_TETRAFLUORIDE ==
  CreateMoleculeShape("SF4", 1595, 1,
    << << << 1643, -99, 0 >>, 3, 1 >>,
       << << -1643, -99, 0 >>, 3, 1 >>,
       << << 0, -976, 1197 >>, 3, 1 >>,
       << << 0, -976, -1197 >>, 3, 1 >> >>)

SULFUR_HEXAFLUORIDE ==
  CreateMoleculeShape("SF6", 1564, 0,
    [ i \in 1..6 |-> << Times(GetConfiguration(6)[i], 1564), 3, 1 >> ])

SULFUR_DIOXIDE ==
  CreateMoleculeShape("SO2", 1431, 1,
    << << << 1233, -726, 0 >>, 2, 2 >>,
       << << -1233, -726, 0 >>, 2, 2 >> >>)

XENON_DIFLUORIDE ==
  CreateMoleculeShape("XeF2", 1977, 3,
    << << << 1977, 0, 0 >>, 3, 1 >>,
       << << -1977, 0, 0 >>, 3, 1 >> >>)

XENON_TETRAFLUORIDE ==
  CreateMoleculeShape("XeF4", 1953, 2,
    << << << 1953, 0, 0 >>, 3, 1 >>,
       << << -1953, 0, 0 >>, 3, 1 >>,
       << << 0, 0, 1953 >>, 3, 1 >>,
       << << 0, 0, -1953 >>, 3, 1 >> >>)

\* every entry of RealMoleculeShape.TAB_2_BASIC_MOLECULES
ALL_TAB_2_BASIC_MOLECULES ==
  << BERYLLIUM_CHLORIDE, BORON_TRIFLUORIDE, METHANE, PHOSPHORUS_PENTACHLORIDE,
     SULFUR_HEXAFLUORIDE >>

\* every entry of RealMoleculeShape.TAB_2_MOLECULES
ALL_TAB_2_MOLECULES ==
  << WATER, CARBON_DIOXIDE, SULFUR_DIOXIDE, XENON_DIFLUORIDE, BORON_TRIFLUORIDE,
     CHLORINE_TRIFLUORIDE, AMMONIA, METHANE, SULFUR_TETRAFLUORIDE, XENON_TETRAFLUORIDE,
     BROMINE_PENTAFLUORIDE, PHOSPHORUS_PENTACHLORIDE, SULFUR_HEXAFLUORIDE >>

PredefinedShapes == ALL_TAB_2_MOLECULES \o ALL_TAB_2_BASIC_MOLECULES

\* mutant of the lookup's argument: the lone pairs of every atom are counted
StericNumberAllAtoms(realMoleculeShape) ==
  realMoleculeShape.centralAtomCount
    + SumSeq([ i \in 1..Len(realMoleculeShape.atoms) |-> realMoleculeShape.atoms[i].lonePairCount ])

\* numRadialAtoms + numRadialLonePairs, the number of groups the
\* configuration is looked up for
StericNumber(realMoleculeShape) ==
  realMoleculeShape.centralAtomCount + ShapeCentralAtom(realMoleculeShape).lonePairCount

\* geometries[ numberOfGroups ] is undefined outside the table
LookupConfiguration(realMoleculeShape) ==
  [ numberOfGroups |-> StericNumber(realMoleculeShape),
    defined        |-> StericNumber(realMoleculeShape) \in DOMAIN geometries ]

TAB_2_BASIC_MOLECULES == << BERYLLIUM_CHLORIDE >>

\* the shapes the real screen offers in the model
TAB_2_MOLECULES == << WATER, CARBON_DIOXIDE >>

----------------------------------------------------------------------------
(* Math.log in fixed point *)

\* scale of the intermediate results of Ln
LN_SCALE == 10000

\* ln 2 at LN_SCALE
LN2 == 6931

\* ln(x / SCALE) at LN_SCALE for SCALE <= x < 2 * SCALE: 2 atanh((x - 1) / (x + 1))
LnSeries(x) ==
  LET y  == Div((x - SCALE) * LN_SCALE, x + SCALE)
      y2 == Div(y * y, LN_SCALE)
      y3 == Div(y * y2, LN_SCALE)
      y5 == Div(y3 * y2, LN_SCALE)
      y7 == Div(y5 * y2, LN_SCALE)
      y9 == Div(y7 * y2, LN_SCALE)
  IN 2 * (y + Div(y3, 3) + Div(y5, 5) + Div(y7, 7) + Div(y9, 9))

RECURSIVE LnReduce(_, _)
LnReduce(x, k) ==
  IF x >= 2 * SCALE THEN LnReduce(Div(x, 2), k + 1)
  ELSE k * LN2 + LnSeries(x)

\* Math.log( x ), argument and result in fixed point (x >= 1)
Ln(x) == Div(LnReduce(x, 0) * SCALE, LN_SCALE)

\* mutant of the override: the 0.5 is not subtracted
TrueLengthsRatioOverrideNoOffset(error) ==
  Max(0, Min(SCALE, Ln(error + SCALE)))

\* VSEPRMolecule.update: Math.max( 0, Math.min( 1, Math.log( error + 1 ) - 0.5 ) )
TrueLengthsRatioOverride(error) ==
  Max(0, Min(SCALE, Ln(error + SCALE) - Div(SCALE, 2)))

----------------------------------------------------------------------------
(* LocalShape and the relaxation it applies *)

Plus(v, w) == << v[1] + w[1], v[2] + w[2], v[3] + w[3] >>

Minus(v, w) == << v[1] - w[1], v[2] - w[2], v[3] - w[3] >>

IndexOf(s, x) == CHOOSE i \in 1..Len(s) : s[i] = x

\* the rotations a best-fit mapping can come out as
Rotations == { "identity", "quarterTurnZ" }

\* mapping.rotateVector
RotateVector(rotation, v) ==
  CASE rotation = "quarterTurnZ" -> << -v[2], v[1], v[3] >>
    [] rotation = "halfTurnZ"    -> << -v[1], -v[2], v[3] >>
    [] rotation = "halfTurnX"    -> << v[1], -v[2], -v[3] >>
    [] OTHER                     -> v

\* LocalShape.sortedLonePairsFirst
SortedLonePairsFirst(m, gs) ==
  SelectSeq(gs, LAMBDA g : m.isLonePair[g]) \o SelectSeq(gs, LAMBDA g : ~m.isLonePair[g])

\* within this distance of its target a group arrives in one tick
SNAP_DISTANCE == 15000

\* one tick of the damped approach of a position to its target
Nudge(pos, target) ==
  LET mid == << Div(pos[1] + target[1], 2), Div(pos[2] + target[2], 2),
                Div(pos[3] + target[3], 2) >>
  IN IF Magnitude(Minus(target, pos)) <= SNAP_DISTANCE \/ Magnitude(mid) = 0
     THEN target
     ELSE SetMagnitude(mid, Magnitude(target))

\* where the matched ideal orientation puts radial group g, at its bond's
\* length from the central atom: VSEPR shapes
\* take the GeometryConfiguration entry of g's place in lone-pairs-first
\* order turned by the molecule's best-fit rotation, real shapes the
\* orientation recorded when the molecule was built
CentralTarget(m, g) ==
  LET sorted == SortedLonePairsFirst(m, RadialGroups(m))
      ideal  == IF m.isReal THEN m.ideal[g]
                ELSE RotateVector(m.rotation, GetConfiguration(Len(sorted))[IndexOf(sorted, g)])
  IN Times(ideal, GetParentBond(m, g).length)

\* the residual of the central shape before any nudge
CentralError(m) ==
  LET rg == RadialGroups(m)
  IN SumSeq([ i \in 1..Len(rg) |->
               Magnitude(Minus(Normalized(m.position[rg[i]]),
                               Normalized(CentralTarget(m, rg[i])))) ])

\* the central shape's pull: groups under user control are skipped
AttractCentral(m, uc) ==
  [ m EXCEPT !.position =
      [ g \in DOMAIN @ |->
          IF g \in Range(RadialGroups(m)) /\ g \notin uc
          THEN Nudge(@[g], CentralTarget(m, g))
          ELSE @[g] ] ]

\* the lone pairs hanging from a radial atom
TerminalLonePairs(m, atom) ==
  SelectSeq(GetNeighbors(m, atom), LAMBDA g : g # centralAtom /\ m.isLonePair[g])

\* place of the i-th of n terminal lone pairs of an atom
TerminalPosition(atomPosition, i, n) ==
  Plus(atomPosition, Times(GetConfiguration(n + 1)[i + 1], LONE_PAIR_DISTANCE))

\* angle correction around a radial atom: its lone pairs take their places
AttractTerminal(m, atom, uc) ==
  LET lps == TerminalLonePairs(m, atom)
  IN [ m EXCEPT !.position =
         [ g \in DOMAIN @ |->
             IF g \in Range(lps) /\ g \notin uc
             THEN TerminalPosition(m.position[atom], IndexOf(lps, g), Len(lps))
             ELSE @[g] ] ]

----------------------------------------------------------------------------
(* VSEPRMolecule and RealMolecule: construction with an override, getMaximumBondLength *)

\* new VSEPRMolecule( bondLengthOverride ) followed by addCentralAtom
VSEPRMolecule(bondLengthOverride) ==
  [ EmptyMolecule(FALSE) EXCEPT !.bondLengthOverride = bondLengthOverride ]

\* mutant of VSEPRMolecule.getMaximumBondLength: the override is tested for truthiness
GetMaximumBondLengthTruthy(m) ==
  IF m.isReal THEN Undefined
  ELSE IF m.bondLengthOverride \notin { Undefined, 0 } THEN m.bondLengthOverride
  ELSE BONDED_PAIR_DISTANCE

\* VSEPRMolecule.getMaximumBondLength and RealMolecule.getMaximumBondLength
GetMaximumBondLength(m) ==
  IF m.isReal THEN Undefined
  ELSE IF m.bondLengthOverride # Undefined THEN m.bondLengthOverride
  ELSE BONDED_PAIR_DISTANCE

----------------------------------------------------------------------------
(* VSEPRMolecule.update and RealMolecule.update *)

\* one call made by update: `atom` is the atom of the loop it was made for
Call(op, atom, group, other, ratio) ==
  [ op |-> op, atom |-> atom, group |-> group, other |-> other, ratio |-> ratio ]

\* the repulseFrom calls of the double loop over the radial groups
RepulseCalls(m, ratio) ==
  LET rg == RadialGroups(m)
      n  == Len(rg)
      at(q) == << ((q - 1) \div n) + 1, ((q - 1) % n) + 1 >>
      all == [ q \in 1..(n * n) |->
                 Call("repulseFrom", centralAtom, rg[at(q)[1]], rg[at(q)[2]], ratio) ]
  IN SelectSeq(all, LAMBDA c : c.other # c.group /\ c.group # centralAtom)

RECURSIVE VSEPRAtomsAnyNeighbor(_, _, _, _)
\* mutant of the loop of VSEPRMolecule.update: an atom is relaxed as soon
\* as it has a neighbor (>= 1 instead of > 1)
VSEPRAtomsAnyNeighbor(m, uc, atoms, acc) ==
  IF atoms = << >> THEN [ m |-> m ] @@ acc
  ELSE LET atom == Head(atoms)
       IN IF GetNeighborCount(m, atom) >= 1
          THEN IF atom = centralAtom
               THEN LET error == CentralError(m)
                        ratio == TrueLengthsRatioOverride(error)
                    IN VSEPRAtomsAnyNeighbor(AttractCentral(m, uc), uc, Tail(atoms),
                         [ error |-> error, ratio |-> ratio,
                           calls |-> acc.calls
                                     \o << Call("applyAttraction", atom, NoGroup, NoGroup, 0) >>
                                     \o RepulseCalls(m, ratio) ])
               ELSE VSEPRAtomsAnyNeighbor(AttractTerminal(m, atom, uc), uc, Tail(atoms),
                      [ acc EXCEPT !.calls =
                          @ \o << Call("applyAngleAttractionRepulsion", atom, NoGroup, NoGroup, 0) >> ])
          ELSE VSEPRAtomsAnyNeighbor(m, uc, Tail(atoms), acc)

RECURSIVE VSEPRAtoms(_, _, _, _)
\* the loop of VSEPRMolecule.update over this.atoms
VSEPRAtoms(m, uc, atoms, acc) ==
  IF atoms = << >> THEN [ m |-> m ] @@ acc
  ELSE LET atom == Head(atoms)
       IN IF GetNeighborCount(m, atom) > 1
          THEN IF atom = centralAtom
               THEN LET error == CentralError(m)
                        ratio == TrueLengthsRatioOverride(error)
                    IN VSEPRAtoms(AttractCentral(m, uc), uc, Tail(atoms),
                         [ error |-> error, ratio |-> ratio,
                           calls |-> acc.calls
                                     \o << Call("applyAttraction", atom, NoGroup, NoGroup, 0) >>
                                     \o RepulseCalls(m, ratio) ])
               ELSE VSEPRAtoms(AttractTerminal(m, atom, uc), uc, Tail(atoms),
                      [ acc EXCEPT !.calls =
                          @ \o << Call("applyAngleAttractionRepulsion", atom, NoGroup, NoGroup, 0) >> ])
          ELSE VSEPRAtoms(m, uc, Tail(atoms), acc)

NoTick == [ error |-> 0, ratio |-> 0, calls |-> << >> ]

VSEPRMoleculeUpdate(m, uc) == VSEPRAtoms(m, uc, Atoms(m), NoTick)

RECURSIVE RealAtomsRepelling(_, _, _, _)
\* mutant of the loop of RealMolecule.update: the central atom is relaxed
\* the way VSEPRMolecule.update relaxes it
RealAtomsRepelling(m, uc, atoms, acc) ==
  IF atoms = << >> THEN [ m |-> m ] @@ acc
  ELSE LET atom == Head(atoms)
       IN IF Len(GetNeighbors(m, atom)) > 1
          THEN IF atom = centralAtom
               THEN RealAtomsRepelling(AttractCentral(m, uc), uc, Tail(atoms),
                      [ acc EXCEPT !.calls =
                          @ \o << Call("applyAttraction", atom, NoGroup, NoGroup, 0) >>
                            \o RepulseCalls(m, 0) ])
               ELSE RealAtomsRepelling(AttractTerminal(m, atom, uc), uc, Tail(atoms),
                      [ acc EXCEPT !.calls =
                          @ \o << Call("applyAngleAttractionRepulsion", atom, NoGroup, NoGroup, 0) >> ])
          ELSE RealAtomsRepelling(m, uc, Tail(atoms), acc)

RECURSIVE RealAtoms(_, _, _, _)
\* the loop of RealMolecule.update over this.atoms
RealAtoms(m, uc, atoms, acc) ==
  IF atoms = << >> THEN [ m |-> m ] @@ acc
  ELSE LET atom == Head(atoms)
       IN IF Len(GetNeighbors(m, atom)) > 1
          THEN RealAtoms(IF atom = centralAtom THEN AttractCentral(m, uc)
                                               ELSE AttractTerminal(m, atom, uc),
                         uc, Tail(atoms),
                         [ acc EXCEPT !.calls =
                             @ \o << Call("applyAngleAttractionRepulsion", atom, NoGroup, NoGroup, 0) >> ])
          ELSE RealAtoms(m, uc, Tail(atoms), acc)

RealMoleculeUpdate(m, uc) == RealAtoms(m, uc, Atoms(m), NoTick)

\* molecule.update( dt ), dispatched on the molecule's class
MoleculeUpdate(m, uc) ==
  IF m.isReal THEN RealMoleculeUpdate(m, uc) ELSE VSEPRMoleculeUpdate(m, uc)

----------------------------------------------------------------------------
(* Building molecules *)

RECURSIVE AddTerminalLonePairsFrom(_, _, _, _, _, _)
AddTerminalLonePairsFrom(m, atom, quantity, i, firstId, events) ==
  IF i > quantity THEN [ m |-> m, events |-> events, failed |-> FALSE ]
  ELSE LET r == AddGroupAndBond(m, firstId + i - 1, atom, 0, LONE_PAIR_DISTANCE, TRUE,
                                TerminalPosition(m.position[atom], i, quantity))
       IN IF r.failed THEN [ m |-> m, events |-> events, failed |-> TRUE ]
          ELSE AddTerminalLonePairsFrom(r.m, atom, quantity, i + 1, firstId, events \o r.events)

\* Molecule.addTerminalLonePairs( atom, quantity ); the new groups take the
\* ids firstId, firstId + 1, ...
AddTerminalLonePairs(m, atom, quantity, firstId) ==
  AddTerminalLonePairsFrom(m, atom, quantity, 1, firstId, << >>)

\* the two single bonds of ModelMoleculesModel.setupInitialMoleculeState
SetupInitialMoleculeState(m) ==
  LET first == AddGroupAndBond(m, 1, centralAtom, 1, 0, FALSE,
                               SetMagnitude(<< 8000, 0, 3000 >>, BONDED_PAIR_DISTANCE))
  IN AddGroupAndBond(first.m, 2, centralAtom, 1, 0, FALSE,
                     SetMagnitude(<< 2000, 8000, -5000 >>, BONDED_PAIR_DISTANCE)).m

\* where the rotated ideal orientations put the central atom's lone pairs
CentralLonePairOrientation(i) ==
  << << 0, 0, 1000 >>, << 0, 0, -1000 >>, << 0, 1000, 0 >> >>[i]

WithIdeal(m, g, orientation) ==
  [ m EXCEPT !.ideal = [ x \in DOMAIN @ \cup { g } |-> IF x = g THEN orientation ELSE @[x] ] ]

RECURSIVE RealMoleculeBondsChained(_, _, _, _)
\* mutant of the constructor's bond loop: each atom is bonded to the group
\* added before it instead of to the central atom
RealMoleculeBondsChained(m, realMolecule, i, id) ==
  IF i > Len(realMolecule.bonds) THEN [ m |-> m, id |-> id ]
  ELSE LET bond         == realMolecule.bonds[i]
           atom         == realMolecule.atoms[bond.atom]
           bondLength   == Magnitude(atom.position)
           atomLocation == Times(atom.orientation, bondLength)
           added        == AddGroupAndBond(m, id, id - 1, bond.order, bondLength,
                                           FALSE, atomLocation).m
           withLps      == AddTerminalLonePairs(WithIdeal(added, id, atom.orientation),
                                                id, atom.lonePairCount, id + 1).m
       IN RealMoleculeBondsChained(withLps, realMolecule, i + 1, id + 1 + atom.lonePairCount)

RECURSIVE RealMoleculeBonds(_, _, _, _)
\* the loop of the RealMolecule constructor over realMolecule.bonds
RealMoleculeBonds(m, realMolecule, i, id) ==
  IF i > Len(realMolecule.bonds) THEN [ m |-> m, id |-> id ]
  ELSE LET bond         == realMolecule.bonds[i]
           atom         == realMolecule.atoms[bond.atom]
           bondLength   == Magnitude(atom.position)
           atomLocation == Times(atom.orientation, bondLength)
           added        == AddGroupAndBond(m, id, centralAtom, bond.order, bondLength,
                                           FALSE, atomLocation).m
           withLps      == AddTerminalLonePairs(WithIdeal(added, id, atom.orientation),
                                                id, atom.lonePairCount, id + 1).m
       IN RealMoleculeBonds(withLps, realMolecule, i + 1, id + 1 + atom.lonePairCount)

RECURSIVE RealMoleculeLonePairs(_, _, _, _)
\* the loop of the RealMolecule constructor over the central lone pairs
RealMoleculeLonePairs(m, numLonePairs, i, id) ==
  IF i > numLonePairs THEN m
  ELSE LET orientation == CentralLonePairOrientation(i)
           added == AddGroupAndBond(m, id, centralAtom, 0, LONE_PAIR_DISTANCE, TRUE,
                                    Times(orientation, LONE_PAIR_DISTANCE)).m
       IN RealMoleculeLonePairs(WithIdeal(added, id, orientation), numLonePairs, i + 1, id + 1)

\* new RealMolecule( realMolecule )
RealMolecule(realMolecule) ==
  LET bonded == RealMoleculeBonds(EmptyMolecule(TRUE), realMolecule, 1, 1)
  IN RealMoleculeLonePairs(bonded.m, ShapeCentralAtom(realMolecule).lonePairCount, 1, bonded.id)

----------------------------------------------------------------------------
(* LocalShape *)

\* new LocalShape( allowedPermutations, centralAtom, groups, idealOrientations );
\* the permutations are left out
LocalShape(atom, groups, idealOrientations) ==
  [ centralAtom |-> atom, groups |-> groups, idealOrientations |-> idealOrientations ]

\* Molecule.getLocalVSEPRShape( atom )
GetLocalVSEPRShape(m, atom) ==
  LET groups == SortedLonePairsFirst(m, GetNeighbors(m, atom))
  IN LocalShape(atom, groups, GetConfiguration(Len(groups)))

\* mutant of the constructor's central shape: the groups are sorted lone
\* pairs first, the orientations stay in the order they were pushed
RealMoleculeCentralLocalShapeSorted(m) ==
  LET centralPairGroups == RadialGroups(m)
  IN LocalShape(centralAtom, SortedLonePairsFirst(m, centralPairGroups),
                [ i \in 1..Len(centralPairGroups) |-> m.ideal[centralPairGroups[i]] ])

\* the shape the RealMolecule constructor stores for the central atom of the
\* molecule m it has built: centralPairGroups and idealCentralOrientations
\* are pushed to together, in the bond loop and then in the lone-pair loop,
\* which is the order of the central atom's bonds
RealMoleculeCentralLocalShape(m) ==
  LET centralPairGroups == RadialGroups(m)
  IN LocalShape(centralAtom, centralPairGroups,
                [ i \in 1..Len(centralPairGroups) |-> m.ideal[centralPairGroups[i]] ])

\* getLocalShape( atom ): a RealMolecule looks up the map its constructor
\* filled, a VSEPRMolecule builds the shape from the atom's neighbors
GetLocalShape(m, atom) ==
  IF m.isReal /\ atom = centralAtom
  THEN RealMoleculeCentralLocalShape(m)
  ELSE GetLocalVSEPRShape(m, atom)

----------------------------------------------------------------------------
(* RealMoleculesModel.rebuildMolecule *)

\* permutation.apply( i ) on 0-based slots: the atoms' slots come after the
\* lone pairs'; `swapped` exchanges the first two atom slots
PermutationApply(swapped, numRadialLonePairs, numRadialAtoms, i) ==
  IF swapped /\ numRadialAtoms >= 2 /\ i = numRadialLonePairs THEN i + 1
  ELSE IF swapped /\ numRadialAtoms >= 2 /\ i = numRadialLonePairs + 1 THEN i - 1
  ELSE i

\* the real branch: a fresh RealMolecule, turned onto the old one unless the
\* molecule type changed
RebuildReal(realMoleculeShape, switchedRealMolecule, rotation) ==
  LET newMolecule == RealMolecule(realMoleculeShape)
  IN IF switchedRealMolecule THEN newMolecule
     ELSE [ newMolecule EXCEPT
              !.position = [ g \in DOMAIN @ |->
                             IF g # centralAtom THEN RotateVector(rotation, @[g]) ELSE @[g] ],
              !.ideal = [ g \in DOMAIN @ |-> RotateVector(rotation, @[g]) ] ]

RECURSIVE RebuildVSEPRGroups(_, _, _, _, _, _, _, _)
\* the loop of the VSEPR branch over i = 0 .. numRadialAtoms + numRadialLonePairs - 1
RebuildVSEPRGroups(m, mappingMolecule, numRadialAtoms, numRadialLonePairs, rotation, swapped, i, id) ==
  IF i >= numRadialAtoms + numRadialLonePairs THEN m
  ELSE LET idealUnitVectors == GetConfiguration(numRadialAtoms + numRadialLonePairs)
           unitVector == RotateVector(rotation, idealUnitVectors[i + 1])
       IN IF i < numRadialLonePairs
          THEN RebuildVSEPRGroups(
                 AddGroupAndBond(m, id, centralAtom, 0, 0, TRUE,
                                 Times(unitVector, LONE_PAIR_DISTANCE)).m,
                 mappingMolecule, numRadialAtoms, numRadialLonePairs,
                 rotation, swapped, i + 1, id + 1)
          ELSE LET oldRadialGroup ==
                     RadialAtoms(mappingMolecule)[
                       PermutationApply(swapped, numRadialLonePairs, numRadialAtoms, i)
                         - numRadialLonePairs + 1]
                   bond  == GetParentBond(mappingMolecule, oldRadialGroup)
                   added == AddGroupAndBond(m, id, centralAtom, bond.order, bond.length,
                                            FALSE, Times(unitVector, bond.length)).m
                   lps   == Len(TerminalLonePairs(mappingMolecule, oldRadialGroup))
               IN RebuildVSEPRGroups(
                    AddTerminalLonePairs(added, id, lps, id + 1).m,
                    mappingMolecule, numRadialAtoms, numRadialLonePairs,
                    rotation, swapped, i + 1, id + 1 + lps)

\* mutant of rebuildMolecule: showRealView is not consulted
RebuildMoleculeAlwaysReal(molecule_, realMoleculeShape, showRealView_, switchedRealMolecule, rotation, swapped) ==
  RebuildReal(realMoleculeShape, switchedRealMolecule, rotation)

\* rebuildMolecule( switchedRealMolecule ): the molecule handed to
\* moleculeProperty.set
RebuildMolecule(molecule_, realMoleculeShape, showRealView_, switchedRealMolecule, rotation, swapped) ==
  LET numRadialAtoms     == realMoleculeShape.centralAtomCount
      numRadialLonePairs == ShapeCentralAtom(realMoleculeShape).lonePairCount
      mappingMolecule    == IF switchedRealMolecule THEN RealMolecule(realMoleculeShape)
                            ELSE molecule_
  IN IF showRealView_
     THEN RebuildReal(realMoleculeShape, switchedRealMolecule, rotation)
     ELSE [ RebuildVSEPRGroups(EmptyMolecule(FALSE), mappingMolecule, numRadialAtoms,
                               numRadialLonePairs, rotation, swapped, 0, 1)
            EXCEPT !.rotation = rotation ]

----------------------------------------------------------------------------
(* State after construction *)

Pointers == 1..NumPointers

\* bond orders the model screen adds atoms with
BondOrders == { 1 }

\* directions of the positions a new group is dropped at
AddDirections == { << 0, 1000, 0 >> }

\* directions of the positions a pointer drags a group to
DragDirections == { << 0, 0, 1000 >> }

\* frame times the animation loop passes to step, in milliseconds
FrameDts == { 100, 1500 }

Op(op, failed, group, dt, moved) ==
  [ op |-> op, failed |-> failed, group |-> group, parent |-> NoGroup, dt |-> dt,
    moved |-> moved, lonePairsShown |-> showLonePairs ]

NoUpdate ==
  [ valid |-> FALSE, real |-> FALSE, dt |-> 0, error |-> 0, ratio |-> 0, calls |-> << >> ]

IdlePointer == [ dragMode |-> "none", draggedParticle |-> NoGroup ]

\* no library function has been called
NoCall == [ fn |-> "none" ]

\* a dragged group of a molecule that has since been replaced
ReplacedGroup == -2

----------------------------------------------------------------------------
(* MoleculeShapesColors: colors as << red, green, blue, alpha in hundredths >> *)

\* the colors table of the current revision
CurrentColors ==
  [ background |->
      [ default |-> << 0, 0, 0, 100 >>, basics |-> << 198, 226, 246, 100 >>, projector |-> << 255, 255, 255, 100 >> ],
    centralAtom |->
      [ default |-> << 159, 102, 218, 100 >>, basics |-> << 153, 90, 216, 100 >> ],
    atom |->
      [ default |-> << 255, 255, 255, 100 >>, projector |-> << 153, 153, 153, 100 >> ],
    bond |->
      [ default |-> << 255, 255, 255, 100 >>, basics |-> << 230, 230, 230, 100 >> ],
    controlPanelBorder |->
      [ default |-> << 210, 210, 210, 100 >>, basics |-> << 30, 30, 30, 100 >>, projector |-> << 30, 30, 30, 100 >> ],
    controlPanelTitle |->
      [ default |-> << 240, 240, 240, 100 >>, projector |-> << 0, 0, 0, 100 >>, basics |-> << 0, 0, 0, 100 >> ],
    controlPanelText |->
      [ default |-> << 230, 230, 230, 100 >>, projector |-> << 0, 0, 0, 100 >>, basics |-> << 0, 0, 0, 100 >> ],
    realExampleFormula |->
      [ default |-> << 230, 230, 230, 100 >>, projector |-> << 0, 0, 0, 100 >> ],
    realExampleBorder |->
      [ default |-> << 60, 60, 60, 100 >>, projector |-> << 230, 230, 230, 100 >> ],
    lonePairShell |->
      [ default |-> << 255, 255, 255, 70 >>, projector |-> << 178, 178, 178, 70 >> ],
    lonePairElectron |->
      [ default |-> << 255, 255, 0, 80 >>, projector |-> << 0, 0, 0, 80 >> ],
    moleculeGeometryName |->
      [ default |-> << 255, 255, 140, 100 >>, basics |-> << 0, 0, 0, 100 >>, projector |-> << 102, 0, 204, 100 >> ],
    electronGeometryName |->
      [ default |-> << 255, 204, 102, 100 >>, basics |-> << 0, 0, 0, 100 >>, projector |-> << 0, 102, 102, 100 >> ],
    bondAngleReadout |->
      [ default |-> << 255, 255, 255, 100 >>, basics |-> << 0, 0, 0, 100 >>, projector |-> << 0, 0, 0, 100 >> ],
    bondAngleSweep |->
      [ default |-> << 128, 128, 128, 100 >>, basics |-> << 84, 122, 165, 100 >>, projector |-> << 156, 156, 156, 100 >> ],
    bondAngleArc |->
      [ default |-> << 255, 0, 0, 100 >>, basics |-> << 0, 0, 0, 100 >> ],
    removeButtonText |->
      [ default |-> << 0, 0, 0, 100 >> ],
    removeButtonBackground |->
      [ default |-> << 255, 200, 0, 100 >> ],
    checkBox |->
      [ default |-> << 230, 230, 230, 100 >>, basics |-> << 0, 0, 0, 100 >>, projector |-> << 0, 0, 0, 100 >> ],
    checkBoxBackground |->
      [ default |-> << 30, 30, 30, 100 >>, basics |-> << 255, 255, 255, 100 >>, projector |-> << 255, 255, 255, 100 >> ],
    removePairGroup |->
      [ default |-> << 221, 0, 0, 100 >> ] ]

\* the colors table of the earlier revision
LegacyColors ==
  [ background |->
      [ default |-> << 0, 0, 0, 100 >>, basics |-> << 198, 226, 246, 100 >>, projector |-> << 255, 255, 255, 100 >> ],
    centralAtom |->
      [ default |-> << 159, 102, 218, 100 >>, basics |-> << 153, 90, 216, 100 >> ],
    atom |->
      [ default |-> << 255, 255, 255, 100 >>, projector |-> << 153, 153, 153, 100 >> ],
    bond |->
      [ default |-> << 255, 255, 255, 100 >>, basics |-> << 230, 230, 230, 100 >> ],
    controlPanelBorder |->
      [ default |-> << 210, 210, 210, 100 >>, basics |-> << 30, 30, 30, 100 >>, projector |-> << 30, 30, 30, 100 >> ],
    controlPanelTitle |->
      [ default |-> << 240, 240, 240, 100 >>, projector |-> << 0, 0, 0, 100 >>, basics |-> << 0, 0, 0, 100 >> ],
    controlPanelText |->
      [ default |-> << 230, 230, 230, 100 >>, projector |-> << 0, 0, 0, 100 >>, basics |-> << 0, 0, 0, 100 >> ],
    realExampleFormula |->
      [ default |-> << 230, 230, 230, 100 >>, projector |-> << 0, 0, 0, 100 >> ],
    realExampleBorder |->
      [ default |-> << 60, 60, 60, 100 >>, projector |-> << 230, 230, 230, 100 >> ],
    lonePairShell |->
      [ default |-> << 255, 255, 255, 70 >>, projector |-> << 178, 178, 178, 70 >> ],
    lonePairElectron |->
      [ default |-> << 255, 255, 0, 80 >>, projector |-> << 0, 0, 0, 80 >> ],
    moleculeGeometryName |->
      [ default |-> << 255, 255, 140, 100 >>, basics |-> << 0, 0, 0, 100 >>, projector |-> << 102, 0, 204, 100 >> ],
    electronGeometryName |->
      [ default |-> << 255, 204, 102, 100 >>, basics |-> << 0, 0, 0, 100 >>, projector |-> << 0, 102, 102, 100 >> ],
    bondAngleReadout |->
      [ default |-> << 255, 255, 255, 100 >>, basics |-> << 0, 0, 0, 100 >>, projector |-> << 0, 0, 0, 100 >> ],
    bondAngleSweep |->
      [ default |-> << 128, 128, 128, 100 >>, basics |-> << 84, 122, 165, 100 >>, projector |-> << 156, 156, 156, 100 >> ],
    bondAngleArc |->
      [ default |-> << 255, 0, 0, 100 >>, basics |-> << 0, 0, 0, 100 >> ],
    removeButtonText |->
      [ default |-> << 0, 0, 0, 100 >> ],
    removeButtonBackground |->
      [ default |-> << 255, 200, 0, 100 >> ],
    checkBox |->
      [ default |-> << 230, 230, 230, 100 >>, basics |-> << 0, 0, 0, 100 >>, projector |-> << 0, 0, 0, 100 >> ],
    checkBoxDisabled |->
      [ default |-> << 100, 100, 100, 100 >>, basics |-> << 128, 128, 128, 100 >>, projector |-> << 128, 128, 128, 100 >> ],
    checkBoxBackground |->
      [ default |-> << 30, 30, 30, 100 >>, basics |-> << 255, 255, 255, 100 >>, projector |-> << 255, 255, 255, 100 >> ] ]

\* the keys in the order `for ( key in colors )` visits them
CurrentKeys ==
  << "background", "centralAtom", "atom", "bond",
     "controlPanelBorder", "controlPanelTitle", "controlPanelText", "realExampleFormula",
     "realExampleBorder", "lonePairShell", "lonePairElectron", "moleculeGeometryName",
     "electronGeometryName", "bondAngleReadout", "bondAngleSweep", "bondAngleArc",
     "removeButtonText", "removeButtonBackground", "checkBox", "checkBoxBackground",
     "removePairGroup" >>

LegacyKeys ==
  << "background", "centralAtom", "atom", "bond",
     "controlPanelBorder", "controlPanelTitle", "controlPanelText", "realExampleFormula",
     "realExampleBorder", "lonePairShell", "lonePairElectron", "moleculeGeometryName",
     "electronGeometryName", "bondAngleReadout", "bondAngleSweep", "bondAngleArc",
     "removeButtonText", "removeButtonBackground", "checkBox", "checkBoxDisabled",
     "checkBoxBackground" >>

ColorsOf(revision) == IF revision = "current" THEN CurrentColors ELSE LegacyColors

KeysOf(revision) == IF revision = "current" THEN CurrentKeys ELSE LegacyKeys

\* initialProperties: every key starts at its 'default' color
InitialProperties(revision) ==
  [ key \in Range(KeysOf(revision)) |-> ColorsOf(revision)[key].default ]

\* applyProfile( profileName ): the keys the profile defines take its color,
\* the others are left as they are; the current revision skips and does not
\* report a key whose color equals the new one
ApplyProfile(revision, value, profileName) ==
  LET colors  == ColorsOf(revision)
      defined == SelectSeq(KeysOf(revision), LAMBDA key : profileName \in DOMAIN colors[key])
  IN [ value    |-> [ key \in DOMAIN value |->
                        IF profileName \in DOMAIN colors[key] THEN colors[key][profileName]
                        ELSE value[key] ],
       reported |-> IF revision = "current"
                    THEN SelectSeq(defined, LAMBDA key : colors[key][profileName] # value[key])
                    ELSE defined ]


----------------------------------------------------------------------------
(* LocalMaterial, LocalTexture, LocalGeometry: one copy per renderer *)

\* Color.toNumber(): the alpha is not part of the number
ToNumber(color) == color[1] * 65536 + color[2] * 256 + color[3]

\* the color a THREE material is constructed with
WHITE == ToNumber(<< 255, 255, 255, 100 >>)

\* new LocalMaterial( masterMaterial ), new LocalTexture( textureFactory ),
\* new LocalGeometry( masterGeometry ); `created` counts the objects the
\* clone or the factory has made, each new one taking the next identity
NewLocal(kind) ==
  [ kind |-> kind, master |-> [ id |-> 0, color |-> WHITE ], renderers |-> << >>,
    copies |-> << >>, created |-> 0 ]

\* mutant of get: the renderers are not searched
LocalGetAlwaysClones(l, renderer) ==
  LET copy == [ id |-> l.created + 1, color |-> l.master.color ]
  IN [ local |-> [ l EXCEPT !.renderers = Append(@, renderer), !.copies = Append(@, copy),
                            !.created = @ + 1 ],
       result |-> copy ]

\* get( renderer ): the copy owned by the renderer, made on its first request
LocalGet(l, renderer) ==
  IF \E i \in 1..Len(l.renderers) : l.renderers[i] = renderer
  THEN [ local |-> l,
         result |-> l.copies[CHOOSE i \in 1..Len(l.renderers) :
                               /\ l.renderers[i] = renderer
                               /\ \A j \in 1..(i - 1) : l.renderers[j] # renderer] ]
  ELSE LET copy == [ id |-> l.created + 1, color |-> l.master.color ]
       IN [ local |-> [ l EXCEPT !.renderers = Append(@, renderer),
                                 !.copies = Append(@, copy),
                                 !.created = @ + 1 ],
            result |-> copy ]

\* mutant of setColor: the copies are left as they are
LocalSetColorMasterOnly(l, color) == [ l EXCEPT !.master.color = ToNumber(color) ]

\* LocalMaterial.setColor( color )
LocalSetColor(l, color) ==
  [ l EXCEPT !.master.color = ToNumber(color),
             !.copies = [ i \in 1..Len(@) |-> [ @[i] EXCEPT !.color = ToNumber(color) ] ] ]


----------------------------------------------------------------------------
(* The pool of angle labels of MoleculeShapesScreenView, and the MoleculeView
   that checks labels out for its bond-angle views *)

\* the number of labels the screen view creates
LabelCount == 15

\* what pop() gives on an empty pool
NoLabel == 0

\* the screen view as constructed, with the MoleculeView of a molecule that
\* has only its central atom; `out` keeps the labels that were checked out
\* and not returned, `failed` whether an assertion of the pool has failed,
\* `calls` the number of calls made on its MoleculeViews
NewScreenView ==
  [ angleLabels |-> [ i \in 1..LabelCount |-> i ], out |-> { }, failed |-> FALSE,
    atomViews |-> << >>, lonePairViews |-> << >>, angleViews |-> << >>, disposed |-> FALSE,
    calls |-> 0 ]

\* checkOutLabel(): the label popped from the pool
CheckOutLabel(sv) ==
  IF sv.angleLabels = << >>
  THEN [ sv |-> [ sv EXCEPT !.failed = TRUE ], label |-> NoLabel ]
  ELSE [ sv |-> [ sv EXCEPT !.angleLabels = SubSeq(@, 1, Len(@) - 1),
                            !.out = @ \cup { sv.angleLabels[Len(sv.angleLabels)] } ],
         label |-> sv.angleLabels[Len(sv.angleLabels)] ]

\* returnLabel( label )
ReturnLabel(sv, label) ==
  [ sv EXCEPT !.failed = @ \/ label \in Range(sv.angleLabels),
              !.angleLabels = Append(@, label),
              !.out = @ \ { label } ]

\* the loop of addGroup over the atom views that were there before the new
\* one: one bond-angle view each, with a label checked out for it
RECURSIVE AddAngleViews(_, _, _)
AddAngleViews(sv, others, group) ==
  IF others = << >> THEN sv
  ELSE LET checked == CheckOutLabel(sv)
       IN AddAngleViews([ checked.sv EXCEPT !.angleViews =
                            Append(@, [ aGroup |-> Head(others), bGroup |-> group,
                                        label |-> checked.label ]) ],
                        Tail(others), group)

\* MoleculeView.addGroup( group ) for a group that is not the central atom
MoleculeViewAddGroup(sv, group, isLonePair) ==
  IF isLonePair
  THEN [ sv EXCEPT !.lonePairViews = Append(@, group) ]
  ELSE AddAngleViews([ sv EXCEPT !.atomViews = Append(@, group) ], sv.atomViews, group)

\* the loop of removeGroup over angleViews from the last index down to i = 1
RECURSIVE RemoveAngleViews(_, _, _)
RemoveAngleViews(sv, i, group) ==
  IF i = 0 THEN sv
  ELSE IF sv.angleViews[i].aGroup = group \/ sv.angleViews[i].bGroup = group
  THEN RemoveAngleViews([ ReturnLabel(sv, sv.angleViews[i].label) EXCEPT !.angleViews =
                            SubSeq(@, 1, i - 1) \o SubSeq(@, i + 1, Len(@)) ],
                        i - 1, group)
  ELSE RemoveAngleViews(sv, i - 1, group)

\* mutant of removeGroup: the bond-angle views go, their labels are not returned
MoleculeViewRemoveGroupKeepsLabels(sv, group, isLonePair) ==
  IF isLonePair
  THEN [ sv EXCEPT !.lonePairViews = RemoveFirst(@, group) ]
  ELSE [ sv EXCEPT !.atomViews = RemoveFirst(@, group),
                   !.angleViews = SelectSeq(@, LAMBDA av : av.aGroup # group /\ av.bGroup # group) ]

\* MoleculeView.removeGroup( group )
MoleculeViewRemoveGroup(sv, group, isLonePair) ==
  IF isLonePair
  THEN [ sv EXCEPT !.lonePairViews = RemoveFirst(@, group) ]
  ELSE RemoveAngleViews([ sv EXCEPT !.atomViews = RemoveFirst(@, group) ],
                        Len(sv.angleViews), group)

\* the loop of dispose over angleViews
RECURSIVE ReturnAllLabels(_, _)
ReturnAllLabels(sv, i) ==
  IF i > Len(sv.angleViews) THEN sv
  ELSE ReturnAllLabels(ReturnLabel(sv, sv.angleViews[i].label), i + 1)

\* MoleculeView.dispose(): the labels go back, the arrays stay as they are
MoleculeViewDispose(sv) == [ ReturnAllLabels(sv, 1) EXCEPT !.disposed = TRUE ]

\* new MoleculeView( model, screenView, molecule ) on the same screen view,
\* before the initial setup
NewScreenMoleculeView(sv) ==
  [ sv EXCEPT !.atomViews = << >>, !.lonePairViews = << >>, !.angleViews = << >>,
              !.disposed = FALSE ]


\* new ModelMoleculesModel(): a VSEPRMolecule with two single bonds
InitModelScreen ==
  /\ molecule = SetupInitialMoleculeState(EmptyMolecule(FALSE))
  /\ nextId = 3
  /\ shape = 0
  /\ showRealView = FALSE

\* new RealMoleculesModel(): the RealMolecule of the first shape, real view on
InitRealScreen ==
  /\ molecule = RealMolecule(TAB_2_MOLECULES[1])
  /\ nextId = Len(molecule.groups)
  /\ shape = 1
  /\ showRealView = TRUE

Init ==
  /\ InitModelScreen \/ InitRealScreen
  /\ build \in { "current", "legacy" }
  /\ view = NewMoleculeView(molecule)
  /\ userControlled = { }
  /\ pointers = [ p \in Pointers |-> IdlePointer ]
  /\ draggedParticleCount = 0
  /\ isRotating = FALSE
  /\ showLonePairs = TRUE
  /\ moleculeShapesColors = [ value |-> InitialProperties(build), reported |-> << >>,
                              applied |-> << >> ]
  /\ local = NewLocal("LocalMaterial")
  /\ screenView = NewScreenView
  /\ lastOp = Op("new", FALSE, NoGroup, 0, { })
  /\ lastEvents = << >>
  /\ tick = NoUpdate
  /\ call = NoCall

----------------------------------------------------------------------------
(* Operations of the model screen on its molecule *)

\* mutant of the listener: it is registered for bondAdded
BondAddedListener(show, m, events) ==
  IF ( \E i \in 1..Len(events) : events[i].kind = "bondAdded" ) /\ RadialLonePairs(m) = << >>
  THEN TRUE
  ELSE show

\* the bondChanged listener of ModelMoleculesModel, run for the notifications
\* of one operation that left the molecule as m; the radial lone pairs are
\* those of m at each of these notifications
BondChangedListener(show, m, events) ==
  IF ( \E i \in 1..Len(events) : events[i].kind = "bondChanged" ) /\ RadialLonePairs(m) = << >>
  THEN TRUE
  ELSE show

Quiet ==
  UNCHANGED << pointers, draggedParticleCount, isRotating, build, shape, showRealView, call,
               libraryVars >>

\* molecule.addGroupAndBond( new PairGroup( position, isLonePair ), parent, bondOrder ):
\* the callers pass the central atom; a parent that is not in the molecule
\* is the precondition violation
AddGroup(parent, lonePair, order, direction) ==
  /\ shape = 0
  /\ parent = centralAtom \/ parent \notin Range(molecule.groups)
  /\ nextId <= MaxGroupId
  /\ \E r \in { AddGroupAndBond(molecule, nextId, parent, IF lonePair THEN 0 ELSE order, 0,
                                 lonePair,
                                 Times(direction, IF lonePair THEN LONE_PAIR_DISTANCE
                                                              ELSE BONDED_PAIR_DISTANCE)) } :
        /\ molecule' = r.m
        /\ view' = ViewHandleAll(view, r.m, r.events)
        /\ lastEvents' = r.events
        /\ showLonePairs' = BondChangedListener(showLonePairs, r.m, r.events)
        /\ lastOp' = [ Op("addGroupAndBond", r.failed, nextId, 0, { }) EXCEPT !.parent = parent ]
  /\ nextId' = nextId + 1
  /\ tick' = NoUpdate
  /\ UNCHANGED userControlled
  /\ Quiet

\* molecule.addTerminalLonePairs( atom, quantity )
AddLonePairs(atom, quantity) ==
  /\ shape = 0
  /\ atom \in Range(RadialAtoms(molecule))
  /\ TerminalLonePairs(molecule, atom) = << >>
  /\ nextId + quantity - 1 <= MaxGroupId
  /\ \E r \in { AddTerminalLonePairs(molecule, atom, quantity, nextId) } :
        /\ molecule' = r.m
        /\ view' = ViewHandleAll(view, r.m, r.events)
        /\ lastEvents' = r.events
        /\ showLonePairs' = BondChangedListener(showLonePairs, r.m, r.events)
        /\ lastOp' = Op("addTerminalLonePairs", r.failed, atom, 0, { })
  /\ nextId' = nextId + quantity
  /\ tick' = NoUpdate
  /\ UNCHANGED userControlled
  /\ Quiet

\* molecule.removeGroup( group )
Remove(group) ==
  /\ shape = 0
  /\ group \in Range(molecule.groups) \ { centralAtom }
  /\ \E r \in { RemoveGroup(molecule, group) } :
        /\ molecule' = r.m
        /\ view' = ViewHandleAll(view, r.m, r.events)
        /\ lastEvents' = r.events
        /\ showLonePairs' = BondChangedListener(showLonePairs, r.m, r.events)
        /\ lastOp' = Op("removeGroup", FALSE, group, 0, { })
  /\ tick' = NoUpdate
  /\ UNCHANGED << userControlled, nextId >>
  /\ Quiet

----------------------------------------------------------------------------
(* MoleculeShapesModel.step *)

\* mutant of step: dt is handed on as it comes
UncappedStepDt(dt) == dt

\* the time step the current revision hands to update: Math.min( dt, 0.2 )
CurrentStepDt(dt) == Min(dt, 200)

\* the time step the earlier revision hands to update: Math.min( dt, 1 )
LegacyStepDt(dt) == Min(dt, 1000)

Step(dt) ==
  \E capped \in { IF build = "current" THEN CurrentStepDt(dt) ELSE LegacyStepDt(dt) },
     r \in { MoleculeUpdate(molecule, userControlled) } :
     /\ molecule' = r.m
     /\ tick' = [ valid |-> TRUE, real |-> molecule.isReal, dt |-> capped,
                  error |-> r.error, ratio |-> r.ratio, calls |-> r.calls ]
     /\ lastOp' = Op("step", FALSE, NoGroup, dt,
                     { g \in Range(molecule.groups) : r.m.position[g] # molecule.position[g] })
     /\ lastEvents' = << >>
     /\ UNCHANGED << userControlled, nextId, view, showLonePairs >>
     /\ Quiet

----------------------------------------------------------------------------
(* The multi-pointer drag listener of MoleculeShapesScreenView *)

Still == UNCHANGED << nextId, view, build, shape, showRealView, call, showLonePairs, libraryVars >>

\* mutant of multiDragListener.down: the pair is dragged without being
\* marked user-controlled
PointerDownUnmarked(p, pair) ==
  /\ pointers[p].dragMode = "none"
  /\ pair \in Range(view.radialViews) \cup { NoGroup }
  /\ IF isRotating
     THEN /\ lastOp' = Op("down", TRUE, pair, 0, { })
          /\ UNCHANGED << pointers, userControlled, draggedParticleCount, isRotating >>
     ELSE IF pair # NoGroup /\ pair \notin userControlled
     THEN /\ pointers' = [ pointers EXCEPT ![p] =
                             [ dragMode |-> "pairExistingSpherical", draggedParticle |-> pair ] ]
          /\ draggedParticleCount' = draggedParticleCount + 1
          /\ lastOp' = Op("down", FALSE, pair, 0, { })
          /\ UNCHANGED << userControlled, isRotating >>
     ELSE IF draggedParticleCount = 0
     THEN /\ pointers' = [ pointers EXCEPT ![p] =
                             [ dragMode |-> "modelRotate", draggedParticle |-> NoGroup ] ]
          /\ isRotating' = TRUE
          /\ lastOp' = Op("down", FALSE, pair, 0, { })
          /\ UNCHANGED << userControlled, draggedParticleCount >>
     ELSE /\ lastOp' = Op("down", TRUE, pair, 0, { })
          /\ UNCHANGED << pointers, userControlled, draggedParticleCount, isRotating >>
  /\ lastEvents' = << >>
  /\ tick' = NoUpdate
  /\ UNCHANGED molecule
  /\ UNCHANGED << nextId, view, build, shape, showRealView, call, showLonePairs, libraryVars >>

\* mutant of multiDragListener.down: a press beside every free pair rotates
\* the molecule even while particles are dragged
PointerDownRotatesAnyway(p, pair) ==
  /\ pointers[p].dragMode = "none"
  /\ pair \in Range(view.radialViews) \cup { NoGroup }
  /\ IF isRotating
     THEN /\ lastOp' = Op("down", TRUE, pair, 0, { })
          /\ UNCHANGED << pointers, userControlled, draggedParticleCount, isRotating >>
     ELSE IF pair # NoGroup /\ pair \notin userControlled
     THEN /\ pointers' = [ pointers EXCEPT ![p] =
                             [ dragMode |-> "pairExistingSpherical", draggedParticle |-> pair ] ]
          /\ userControlled' = userControlled \cup { pair }
          /\ draggedParticleCount' = draggedParticleCount + 1
          /\ lastOp' = Op("down", FALSE, pair, 0, { })
          /\ UNCHANGED isRotating
     ELSE /\ pointers' = [ pointers EXCEPT ![p] =
                             [ dragMode |-> "modelRotate", draggedParticle |-> NoGroup ] ]
          /\ isRotating' = TRUE
          /\ lastOp' = Op("down", FALSE, pair, 0, { })
          /\ UNCHANGED << userControlled, draggedParticleCount >>
  /\ lastEvents' = << >>
  /\ tick' = NoUpdate
  /\ UNCHANGED molecule
  /\ UNCHANGED << nextId, view, build, shape, showRealView, call, showLonePairs, libraryVars >>

\* mutant of multiDragListener.down: a pair that is already user-controlled
\* is dragged by the new pointer as well
PointerDownTakesControlled(p, pair) ==
  /\ pointers[p].dragMode = "none"
  /\ pair \in Range(view.radialViews) \cup { NoGroup }
  /\ IF isRotating
     THEN /\ lastOp' = Op("down", TRUE, pair, 0, { })
          /\ UNCHANGED << pointers, userControlled, draggedParticleCount, isRotating >>
     ELSE IF pair # NoGroup
     THEN /\ pointers' = [ pointers EXCEPT ![p] =
                             [ dragMode |-> "pairExistingSpherical", draggedParticle |-> pair ] ]
          /\ userControlled' = userControlled \cup { pair }
          /\ draggedParticleCount' = draggedParticleCount + 1
          /\ lastOp' = Op("down", FALSE, pair, 0, { })
          /\ UNCHANGED isRotating
     ELSE IF draggedParticleCount = 0
     THEN /\ pointers' = [ pointers EXCEPT ![p] =
                             [ dragMode |-> "modelRotate", draggedParticle |-> NoGroup ] ]
          /\ isRotating' = TRUE
          /\ lastOp' = Op("down", FALSE, pair, 0, { })
          /\ UNCHANGED << userControlled, draggedParticleCount >>
     ELSE /\ lastOp' = Op("down", TRUE, pair, 0, { })
          /\ UNCHANGED << pointers, userControlled, draggedParticleCount, isRotating >>
  /\ lastEvents' = << >>
  /\ tick' = NoUpdate
  /\ UNCHANGED molecule
  /\ UNCHANGED << nextId, view, build, shape, showRealView, call, showLonePairs, libraryVars >>

\* multiDragListener.down; `pair` is what getElectronPairUnderPointer finds
\* among the radial views (NoGroup when the pointer is over none). A down
\* that returns early attaches no listener to the pointer.
PointerDown(p, pair) ==
  /\ pointers[p].dragMode = "none"
  /\ pair \in Range(view.radialViews) \cup { NoGroup }
  /\ IF isRotating
     THEN /\ lastOp' = Op("down", TRUE, pair, 0, { })
          /\ UNCHANGED << pointers, userControlled, draggedParticleCount, isRotating >>
     ELSE IF pair # NoGroup /\ pair \notin userControlled
     THEN /\ pointers' = [ pointers EXCEPT ![p] =
                             [ dragMode |-> "pairExistingSpherical", draggedParticle |-> pair ] ]
          /\ userControlled' = userControlled \cup { pair }
          /\ draggedParticleCount' = draggedParticleCount + 1
          /\ lastOp' = Op("down", FALSE, pair, 0, { })
          /\ UNCHANGED isRotating
     ELSE IF draggedParticleCount = 0
     THEN /\ pointers' = [ pointers EXCEPT ![p] =
                             [ dragMode |-> "modelRotate", draggedParticle |-> NoGroup ] ]
          /\ isRotating' = TRUE
          /\ lastOp' = Op("down", FALSE, pair, 0, { })
          /\ UNCHANGED << userControlled, draggedParticleCount >>
     ELSE /\ lastOp' = Op("down", TRUE, pair, 0, { })
          /\ UNCHANGED << pointers, userControlled, draggedParticleCount, isRotating >>
  /\ lastEvents' = << >>
  /\ tick' = NoUpdate
  /\ UNCHANGED molecule
  /\ Still

\* the attached listener's move while a pair is dragged: dragToPosition on
\* the sphere the group lives on, if the group is still in the molecule
PointerMove(p, direction) ==
  /\ pointers[p].dragMode = "pairExistingSpherical"
  /\ LET draggedParticle == pointers[p].draggedParticle
     IN IF draggedParticle \in Range(molecule.groups)
        THEN molecule' = [ molecule EXCEPT !.position[draggedParticle] =
                             Times(direction, Magnitude(@)) ]
        ELSE UNCHANGED molecule
  /\ lastOp' = Op("move", FALSE, NoGroup, 0, { })
  /\ lastEvents' = << >>
  /\ tick' = NoUpdate
  /\ UNCHANGED << userControlled, pointers, draggedParticleCount, isRotating >>
  /\ Still

\* mutant of endDrag: the released group stays user-controlled
EndDragKeepControl(p) ==
  /\ pointers[p].dragMode # "none"
  /\ IF pointers[p].dragMode = "pairExistingSpherical"
     THEN /\ draggedParticleCount' = draggedParticleCount - 1
          /\ UNCHANGED << userControlled, isRotating >>
     ELSE /\ isRotating' = FALSE
          /\ UNCHANGED << userControlled, draggedParticleCount >>
  /\ pointers' = [ pointers EXCEPT ![p] = IdlePointer ]
  /\ lastOp' = Op("endDrag", FALSE, pointers[p].draggedParticle, 0, { })
  /\ tick' = NoUpdate
  /\ lastEvents' = << >>
  /\ UNCHANGED molecule
  /\ UNCHANGED << nextId, view, build, shape, showRealView, call, showLonePairs, libraryVars >>

\* the attached listener's endDrag; removeInputListener( this ) leaves the
\* pointer without a listener, so a later up or cancel ends nothing
EndDrag(p) ==
  /\ pointers[p].dragMode # "none"
  /\ IF pointers[p].dragMode = "pairExistingSpherical"
     THEN /\ userControlled' = userControlled \ { pointers[p].draggedParticle }
          /\ draggedParticleCount' = draggedParticleCount - 1
          /\ UNCHANGED isRotating
     ELSE /\ isRotating' = FALSE
          /\ UNCHANGED << userControlled, draggedParticleCount >>
  /\ pointers' = [ pointers EXCEPT ![p] = IdlePointer ]
  /\ lastOp' = Op("endDrag", FALSE, pointers[p].draggedParticle, 0, { })
  /\ tick' = NoUpdate
  /\ lastEvents' = << >>
  /\ UNCHANGED molecule
  /\ Still

\* up ends the drag
PointerUp(p) == EndDrag(p)

\* cancel ends the drag
PointerCancel(p) == EndDrag(p)

----------------------------------------------------------------------------
(* The real screen: choosing a molecule and switching between real and model view *)

\* moleculeProperty.set( newMolecule ): the old molecule's groups are gone,
\* a pointer still dragging one keeps hold of that old group, and the
\* screen view shows the new molecule in a fresh MoleculeView
SetMolecule(newMolecule) ==
  /\ molecule' = newMolecule
  /\ view' = NewMoleculeView(newMolecule)
  /\ nextId' = Len(newMolecule.groups)
  /\ userControlled' = { }
  /\ pointers' = [ p \in Pointers |->
                     IF pointers[p].dragMode = "pairExistingSpherical"
                     THEN [ pointers[p] EXCEPT !.draggedParticle = ReplacedGroup ]
                     ELSE pointers[p] ]
  /\ lastEvents' = << >>
  /\ tick' = NoUpdate
  /\ UNCHANGED << draggedParticleCount, isRotating, build, call, showLonePairs, libraryVars >>

\* realMoleculeShapeProperty.set( shape ): rebuildMolecule( true )
SetRealMoleculeShape(i, rotation, swapped) ==
  /\ shape # 0
  /\ i \in 1..Len(TAB_2_MOLECULES)
  /\ i # shape
  /\ shape' = i
  /\ UNCHANGED showRealView
  /\ \E newMolecule \in { RebuildMolecule(molecule, TAB_2_MOLECULES[i], showRealView, TRUE,
                                           rotation, swapped) } : SetMolecule(newMolecule)
  /\ lastOp' = Op("rebuildMolecule(true)", FALSE, NoGroup, 0, { })

\* showRealViewProperty.set( !showRealView ): rebuildMolecule( false )
ToggleRealView(rotation, swapped) ==
  /\ shape # 0
  /\ showRealView' = ~showRealView
  /\ UNCHANGED shape
  /\ \E newMolecule \in { RebuildMolecule(molecule, TAB_2_MOLECULES[shape], ~showRealView,
                                           FALSE, rotation, swapped) } : SetMolecule(newMolecule)
  /\ lastOp' = Op("rebuildMolecule(false)", FALSE, NoGroup, 0, { })

\* the molecule RealMoleculesModel.reset() ends with: moleculeProperty.reset()
\* puts the starting molecule back, realMoleculeShapeProperty.reset() and
\* showRealViewProperty.reset() each rebuild through their listeners when
\* the value changes, and rebuildMolecule( true ) closes
ResetMolecule(shape_, showRealView_, rotation, swapped) ==
  LET startingMoleculeShape == TAB_2_MOLECULES[1]
      startingMolecule == RealMolecule(startingMoleculeShape)
      afterShape == IF shape_ # 1
                    THEN RebuildMolecule(startingMolecule, startingMoleculeShape, showRealView_,
                                         TRUE, rotation, swapped)
                    ELSE startingMolecule
      afterShowRealView == IF ~showRealView_
                           THEN RebuildMolecule(afterShape, startingMoleculeShape, TRUE, FALSE,
                                                rotation, swapped)
                           ELSE afterShape
  IN RebuildMolecule(afterShowRealView, startingMoleculeShape, TRUE, TRUE, rotation, swapped)

\* RealMoleculesModel.reset(); every molecule it sets on the way replaces
\* the MoleculeView as the last one does
Reset(rotation, swapped) ==
  /\ shape # 0
  /\ shape' = 1
  /\ showRealView' = TRUE
  /\ showLonePairs' = TRUE
  /\ \E newMolecule \in { ResetMolecule(shape, showRealView, rotation, swapped) } :
       /\ molecule' = newMolecule
       /\ view' = NewMoleculeView(newMolecule)
       /\ nextId' = Len(newMolecule.groups)
  /\ userControlled' = { }
  /\ pointers' = [ p \in Pointers |->
                     IF pointers[p].dragMode = "pairExistingSpherical"
                     THEN [ pointers[p] EXCEPT !.draggedParticle = ReplacedGroup ]
                     ELSE pointers[p] ]
  /\ lastOp' = Op("reset", FALSE, NoGroup, 0, { })
  /\ lastEvents' = << >>
  /\ tick' = NoUpdate
  /\ UNCHANGED << draggedParticleCount, isRotating, build, call, libraryVars >>

----------------------------------------------------------------------------
(* The Show Lone Pairs setting *)

\* showLonePairsProperty.set( value ) from outside the model
SetShowLonePairs(value) ==
  /\ value # showLonePairs
  /\ showLonePairs' = value
  /\ lastOp' = Op("setShowLonePairs", FALSE, NoGroup, 0, { })
  /\ lastEvents' = << >>
  /\ tick' = NoUpdate
  /\ UNCHANGED << molecule, userControlled, nextId, view >>
  /\ Quiet

----------------------------------------------------------------------------
(* The system *)

Next ==
  \/ \E parent \in 0..MaxGroupId, lonePair \in BOOLEAN, order \in BondOrders,
        direction \in AddDirections : AddGroup(parent, lonePair, order, direction)
  \/ \E atom \in 1..MaxGroupId, quantity \in 1..MaxTerminalLonePairs : AddLonePairs(atom, quantity)
  \/ \E group \in 1..MaxGroupId : Remove(group)
  \/ \E dt \in FrameDts : Step(dt)
  \/ \E p \in Pointers, pair \in (0..MaxGroupId) \cup { NoGroup } : PointerDown(p, pair)
  \/ \E p \in Pointers, direction \in DragDirections : PointerMove(p, direction)
  \/ \E p \in Pointers : PointerUp(p)
  \/ \E p \in Pointers : PointerCancel(p)
  \/ \E i \in 1..Len(TAB_2_MOLECULES), rotation \in Rotations, swapped \in BOOLEAN :
       SetRealMoleculeShape(i, rotation, swapped)
  \/ \E rotation \in Rotations, swapped \in BOOLEAN : ToggleRealView(rotation, swapped)
  \/ \E rotation \in Rotations, swapped \in BOOLEAN : Reset(rotation, swapped)

Spec == Init /\ [][Next]_vars

\* the model screen with its Show Lone Pairs setting: groups are added and
\* removed, the setting is switched
ShowLonePairsInit == Init /\ shape = 0 /\ build = "current"

ShowLonePairsNext ==
  \/ \E parent \in 0..MaxGroupId, lonePair \in BOOLEAN, order \in BondOrders,
        direction \in AddDirections : AddGroup(parent, lonePair, order, direction)
  \/ \E atom \in 1..MaxGroupId, quantity \in 1..MaxTerminalLonePairs : AddLonePairs(atom, quantity)
  \/ \E group \in 1..MaxGroupId : Remove(group)
  \/ \E value \in BOOLEAN : SetShowLonePairs(value)

SpecShowLonePairs == ShowLonePairsInit /\ [][ShowLonePairsNext]_vars

----------------------------------------------------------------------------
(* Color profiles *)

Profiles == { "default", "basics", "projector" }

\* the longest sequence of applyProfile calls
MaxApplied == 4

\* everything but the colors stays as it is
ColorsOnly ==
  UNCHANGED << molecule, userControlled, nextId, view, pointers, draggedParticleCount,
               isRotating, build, lastOp, lastEvents, tick, shape, showRealView, call,
               showLonePairs, local, screenView >>

\* MoleculeShapesColors.applyProfile( profileName )
CallApplyProfile(profileName) ==
  /\ Len(moleculeShapesColors.applied) < MaxApplied
  /\ \E r \in { ApplyProfile(build, moleculeShapesColors.value, profileName) } :
       moleculeShapesColors' = [ value |-> r.value, reported |-> r.reported,
                                 applied |-> Append(moleculeShapesColors.applied, profileName) ]
  /\ ColorsOnly

ColorsInit == Init /\ shape = 0

ColorsNext == \E profileName \in Profiles : CallApplyProfile(profileName)

SpecColors == ColorsInit /\ [][ColorsNext]_vars

----------------------------------------------------------------------------
(* The per-renderer copies *)

LocalKinds == { "LocalMaterial", "LocalTexture", "LocalGeometry" }

Renderers == { "screenRenderer", "iconRenderer", "panelRenderer" }

\* colors handed to setColor: two of them differ in their alpha alone
ColorSamples ==
  { CurrentColors.atom.default, CurrentColors.lonePairShell.default,
    CurrentColors.centralAtom.default, CurrentColors.background.default }

\* everything but the local object and the record of the last call stays
LocalOnly ==
  UNCHANGED << molecule, userControlled, nextId, view, pointers, draggedParticleCount,
               isRotating, build, lastOp, lastEvents, tick, shape, showRealView,
               showLonePairs, moleculeShapesColors, screenView >>

\* get( renderer ); the call records the renderers asked for so far
CallLocalGet(renderer) ==
  /\ \E r \in { LocalGet(local, renderer) } :
       /\ local' = r.local
       /\ call' = [ fn |-> "get", renderer |-> renderer, result |-> r.result,
                    requested |-> ( IF call.fn = "none" THEN { } ELSE call.requested )
                                    \cup { renderer } ]
  /\ LocalOnly

\* setColor( color ), which only a LocalMaterial has
CallLocalSetColor(color) ==
  /\ local.kind = "LocalMaterial"
  /\ local' = LocalSetColor(local, color)
  /\ call' = [ fn |-> "setColor", color |-> color,
               requested |-> IF call.fn = "none" THEN { } ELSE call.requested ]
  /\ LocalOnly

LocalInit ==
  /\ InitModelScreen
  /\ build = "current"
  /\ view = NewMoleculeView(molecule)
  /\ userControlled = { }
  /\ pointers = [ p \in Pointers |-> IdlePointer ]
  /\ draggedParticleCount = 0
  /\ isRotating = FALSE
  /\ showLonePairs = TRUE
  /\ lastOp = Op("new", FALSE, NoGroup, 0, { })
  /\ lastEvents = << >>
  /\ tick = NoUpdate
  /\ call = NoCall
  /\ moleculeShapesColors = [ value |-> InitialProperties(build), reported |-> << >>,
                              applied |-> << >> ]
  /\ \E kind \in LocalKinds : local = NewLocal(kind)
  /\ screenView = NewScreenView

LocalNext ==
  \/ \E renderer \in Renderers : CallLocalGet(renderer)
  \/ \E color \in ColorSamples : CallLocalSetColor(color)

SpecLocal == LocalInit /\ [][LocalNext]_vars

----------------------------------------------------------------------------
(* The angle labels *)

\* the most atom views the pool has a label for every pair of
MaxAtomViews == CHOOSE n \in 1..LabelCount : n * (n - 1) = 2 * LabelCount

\* the calls made on MoleculeViews in one behaviour
MaxLabelCalls == 12

AtomIds == 1..MaxAtomViews

LonePairIds == { MaxAtomViews + 1 }

\* everything but the screen view's labels and views stays
LabelsOnly ==
  UNCHANGED << molecule, userControlled, nextId, view, pointers, draggedParticleCount,
               isRotating, build, lastOp, lastEvents, tick, shape, showRealView, call,
               showLonePairs, moleculeShapesColors, local >>

\* the groupAdded listener of the MoleculeView; atoms come in the order of
\* their ids, as the molecule numbers them
LabelsAddGroup(group) ==
  /\ ~screenView.disposed
  /\ group \notin Range(screenView.atomViews) \cup Range(screenView.lonePairViews)
  /\ group \in AtomIds => \A other \in AtomIds : other < group => other \in Range(screenView.atomViews)
  /\ screenView.calls < MaxLabelCalls
  /\ screenView' = [ MoleculeViewAddGroup(screenView, group, group \in LonePairIds)
                       EXCEPT !.calls = @ + 1 ]
  /\ LabelsOnly

\* the groupRemoved listener of the MoleculeView
LabelsRemoveGroup(group) ==
  /\ ~screenView.disposed
  /\ group \in Range(screenView.atomViews) \cup Range(screenView.lonePairViews)
  /\ screenView.calls < MaxLabelCalls
  /\ screenView' = [ MoleculeViewRemoveGroup(screenView, group, group \in LonePairIds)
                       EXCEPT !.calls = @ + 1 ]
  /\ LabelsOnly

\* the screen drops its MoleculeView
LabelsDispose ==
  /\ ~screenView.disposed
  /\ screenView.calls < MaxLabelCalls
  /\ screenView' = [ MoleculeViewDispose(screenView) EXCEPT !.calls = @ + 1 ]
  /\ LabelsOnly

\* the screen shows the next molecule in a new MoleculeView
LabelsNewView ==
  /\ screenView.disposed
  /\ screenView' = NewScreenMoleculeView(screenView)
  /\ LabelsOnly

LabelsInit == Init /\ shape = 0 /\ build = "current"

LabelsNext ==
  \/ \E group \in AtomIds \cup LonePairIds : LabelsAddGroup(group)
  \/ \E group \in AtomIds \cup LonePairIds : LabelsRemoveGroup(group)
  \/ LabelsDispose
  \/ LabelsNewView

SpecLabels == LabelsInit /\ [][LabelsNext]_vars

----------------------------------------------------------------------------
(* AttractorModel.findClosestMatchingConfiguration *)

Dot(v, w) == Div(v[1] * w[1] + v[2] * w[2] + v[3] * w[3], SCALE)

\* the rotations the fit chooses from, in the order it tries them
FitRotations == << "identity", "quarterTurnZ", "halfTurnZ", "halfTurnX" >>

\* residual errors closer than this count as equal
FIT_EPSILON == 5

\* the actual orientations re-ordered by a permutation
Permute(permutation, orientations) ==
  [ i \in 1..Len(orientations) |-> orientations[permutation[i]] ]

\* sum over the matched pairs of 1 - dot( rotated actual, ideal )
ResidualError(rotation, permuted, idealOrientations) ==
  SumSeq([ i \in 1..Len(permuted) |->
             SCALE - Dot(RotateVector(rotation, permuted[i]), idealOrientations[i]) ])

\* the first index whose error is within epsilon of the smallest error
FirstMinimum(errors, epsilon) ==
  CHOOSE i \in 1..Len(errors) :
    /\ \A j \in 1..Len(errors) : errors[i] <= errors[j] + epsilon
    /\ \A h \in 1..(i - 1) : \E j \in 1..Len(errors) : errors[h] > errors[j] + epsilon

\* the last index whose error is within epsilon of the smallest error
LastMinimum(errors, epsilon) ==
  CHOOSE i \in 1..Len(errors) :
    /\ \A j \in 1..Len(errors) : errors[i] <= errors[j] + epsilon
    /\ \A h \in (i + 1)..Len(errors) : \E j \in 1..Len(errors) : errors[h] > errors[j] + epsilon

\* steps 1a-1c: each candidate permutation with its best-fit rotation and
\* the residual error of the two
Fits(currentOrientations, idealOrientations, allowablePermutations) ==
  [ k \in 1..Len(allowablePermutations) |->
      LET permuted == Permute(allowablePermutations[k], currentOrientations)
          errors   == [ r \in 1..Len(FitRotations) |->
                          ResidualError(FitRotations[r], permuted, idealOrientations) ]
          best     == FirstMinimum(errors, 0)
      IN [ permutation |-> allowablePermutations[k], rotation |-> FitRotations[best],
           error |-> errors[best], invalid |-> FALSE ] ]

InvalidInput == [ permutation |-> << >>, rotation |-> "identity", error |-> 0, invalid |-> TRUE ]

\* mutant of the tie-break: of the candidates within epsilon of the minimum
\* the last one is returned
FindClosestMatchingConfigurationLast(currentOrientations, idealOrientations, allowablePermutations) ==
  IF \/ Len(currentOrientations) # Len(idealOrientations)
     \/ allowablePermutations = << >>
  THEN InvalidInput
  ELSE LET fits == Fits(currentOrientations, idealOrientations, allowablePermutations)
       IN fits[LastMinimum([ k \in 1..Len(fits) |-> fits[k].error ], FIT_EPSILON)]

\* step 2: the candidate with the minimum residual, the earliest of those
\* within epsilon of it
FindClosestMatchingConfiguration(currentOrientations, idealOrientations, allowablePermutations) ==
  IF \/ Len(currentOrientations) # Len(idealOrientations)
     \/ allowablePermutations = << >>
  THEN InvalidInput
  ELSE LET fits == Fits(currentOrientations, idealOrientations, allowablePermutations)
       IN fits[FirstMinimum([ k \in 1..Len(fits) |-> fits[k].error ], FIT_EPSILON)]

----------------------------------------------------------------------------
(* Library functions called on their own *)

\* orientations the callers hand in
OrientationSamples ==
  { << 1000, 0, 0 >>, << -1000, 0, 0 >>, << 0, 1000, 0 >>, << 998, 63, 0 >>,
    << -500, 866, 0 >>, << -500, -866, 0 >> }

\* steric numbers the fit is called with
FitSizes == { 2, 3 }

\* the permutations of 1..n
PermutationsOf(n) ==
  { f \in [ 1..n -> 1..n ] : \A i, j \in 1..n : f[i] = f[j] => i = j }

\* candidate lists of one or two different permutations
PermutationLists(n) ==
  { << f >> : f \in PermutationsOf(n) }
    \cup { fg \in PermutationsOf(n) \X PermutationsOf(n) : fg[1] # fg[2] }

Rest ==
  UNCHANGED << molecule, userControlled, nextId, view, pointers, draggedParticleCount,
               isRotating, build, lastOp, lastEvents, tick, shape, showRealView,
               showLonePairs, libraryVars >>

\* each behaviour of the library makes one call, from the state after construction
CallFindClosestMatchingConfiguration(currentOrientations, allowablePermutations) ==
  /\ call = NoCall
  /\ call' = [ fn |-> "findClosestMatchingConfiguration",
               currentOrientations |-> currentOrientations,
               idealOrientations |-> GetConfiguration(Len(currentOrientations)),
               allowablePermutations |-> allowablePermutations,
               result |-> FindClosestMatchingConfiguration(
                            currentOrientations, GetConfiguration(Len(currentOrientations)),
                            allowablePermutations) ]
  /\ Rest

\* steric numbers of the geometry table
StericNumbers == 0..6

CallGetConfiguration(numberOfGroups) ==
  /\ call = NoCall
  /\ call' = [ fn |-> "getConfiguration", numberOfGroups |-> numberOfGroups,
               result |-> GetConfiguration(numberOfGroups) ]
  /\ Rest

\* bondLengthOverride arguments a VSEPRMolecule is constructed with
BondLengthOverrides == { Undefined, 0, 5500, 12000 }

\* molecules getMaximumBondLength is asked of: VSEPR molecules fresh and
\* with their two initial bonds, real molecules fresh and after a tick
MoleculeSamples ==
  { VSEPRMolecule(o) : o \in BondLengthOverrides }
    \cup { SetupInitialMoleculeState(VSEPRMolecule(o)) : o \in BondLengthOverrides }
    \cup { RealMolecule(TAB_2_MOLECULES[i]) : i \in 1..Len(TAB_2_MOLECULES) }
    \cup { MoleculeUpdate(RealMolecule(TAB_2_MOLECULES[i]), { 1 }).m : i \in 1..Len(TAB_2_MOLECULES) }

CallGetMaximumBondLength(m) ==
  /\ call = NoCall
  /\ call' = [ fn |-> "getMaximumBondLength", molecule |-> m,
               result |-> GetMaximumBondLength(m) ]
  /\ Rest

\* the lookup the RealMolecule constructor and rebuildMolecule make for a shape
CallLookupConfiguration(realMoleculeShape) ==
  /\ call = NoCall
  /\ call' = [ fn |-> "lookupConfiguration",
               displayName |-> realMoleculeShape.displayName,
               centralAtomCount |-> realMoleculeShape.centralAtomCount,
               lonePairCount |-> ShapeCentralAtom(realMoleculeShape).lonePairCount,
               result |-> LookupConfiguration(realMoleculeShape) ]
  /\ Rest

RECURSIVE AddRadialGroups(_, _, _)
\* a VSEPR molecule after adding radial groups of the given kinds in order
\* (TRUE for a lone pair), the i-th along the i-th trigonal direction
AddRadialGroups(m, lonePairs, i) ==
  IF i > Len(lonePairs) THEN m
  ELSE AddRadialGroups(
         AddGroupAndBond(m, i, centralAtom, IF lonePairs[i] THEN 0 ELSE 1, 0, lonePairs[i],
                         Times(GetConfiguration(3)[i],
                               IF lonePairs[i] THEN LONE_PAIR_DISTANCE
                               ELSE BONDED_PAIR_DISTANCE)).m,
         lonePairs, i + 1)

\* molecules whose local shapes are asked for: VSEPR molecules with two or
\* three radial groups of every kind, in every order of adding, the last
\* atom carrying a terminal lone pair, and every predefined real molecule
LocalShapeSamples ==
  { AddRadialGroups(VSEPRMolecule(Undefined), lonePairs, 1) :
      lonePairs \in [ 1..2 -> BOOLEAN ] \cup [ 1..3 -> BOOLEAN ] }
    \cup { AddTerminalLonePairs(AddRadialGroups(VSEPRMolecule(Undefined), lonePairs, 1),
                                3, 1, 4).m : lonePairs \in { << TRUE, FALSE, FALSE >> } }
    \cup { RealMolecule(PredefinedShapes[i]) : i \in 1..Len(PredefinedShapes) }

\* the shape around an atom with more than one neighbor, as update asks for
\* it, with what the molecule says of each group the shape holds
CallGetLocalShape(m, atom) ==
  /\ call = NoCall
  /\ Len(GetNeighbors(m, atom)) > 1
  /\ \E localShape \in { GetLocalShape(m, atom) } :
       call' = [ fn |-> "getLocalShape", isReal |-> m.isReal, atom |-> atom,
                 neighbors |-> Range(GetNeighbors(m, atom)),
                 result |-> localShape,
                 isLonePair |-> [ i \in 1..Len(localShape.groups) |->
                                    m.isLonePair[localShape.groups[i]] ],
                 position |-> [ i \in 1..Len(localShape.groups) |->
                                  m.position[localShape.groups[i]] ],
                 bondLength |-> [ i \in 1..Len(localShape.groups) |->
                                    IF localShape.groups[i] = centralAtom THEN 0
                                    ELSE GetParentBond(m, localShape.groups[i]).length ] ]
  /\ Rest

\* lengths a shape is constructed with, in thousandths
ShapeLengths == { 1000, 1800 }

\* coordinates radial atoms are created with: three directions, the first
\* at three magnitudes, none of them an override length
RadialPositionSamples ==
  { << 600, 800, 0 >>, << 1200, 1600, 0 >>, << 6000, 8000, 0 >>,
    << 0, 0, -7000 >>, << -760, -570, 0 >> }

\* the longest sequence of addRadialAtom calls made on one shape
MaxRadialAtoms == 3

\* a shape is constructed, given its central atom and then radial atoms
CallAddRadialAtom(length, positions) ==
  /\ call = NoCall
  /\ call' = [ fn |-> "addRadialAtom", length |-> length, positions |-> positions,
               result |-> CreateMoleculeShape("sample", length, 0,
                            [ i \in 1..Len(positions) |-> << positions[i], 0, 1 >> ]) ]
  /\ Rest

FunctionsInit == Init /\ shape = 0 /\ build = "current"

FunctionsNext ==
  \/ \E n \in FitSizes :
       \E currentOrientations \in [ 1..n -> OrientationSamples ],
          allowablePermutations \in PermutationLists(n) :
         CallFindClosestMatchingConfiguration(currentOrientations, allowablePermutations)
  \/ \E numberOfGroups \in StericNumbers : CallGetConfiguration(numberOfGroups)
  \/ \E m \in MoleculeSamples : CallGetMaximumBondLength(m)
  \/ \E i \in 1..Len(PredefinedShapes) : CallLookupConfiguration(PredefinedShapes[i])
  \/ \E m \in LocalShapeSamples : \E atom \in Range(Atoms(m)) : CallGetLocalShape(m, atom)
  \/ \E length \in ShapeLengths, n \in 1..MaxRadialAtoms :
       \E positions \in [ 1..n -> RadialPositionSamples ] : CallAddRadialAtom(length, positions)

SpecFunctions == FunctionsInit /\ [][FunctionsNext]_vars

----------------------------------------------------------------------------
(* Claims *)

NonCentral(m) == Range(m.groups) \ { centralAtom }

\* the bonds that have g as their child end
ParentBonds(m, g) == { i \in 1..Len(m.bonds) : m.bonds[i].a = g }

C1_WitnessRebuilt ==
  /\ lastOp.op = "rebuildMolecule(false)"
  /\ \E g \in NonCentral(molecule) :
       \E i \in ParentBonds(molecule, g) : molecule.bonds[i].b # centralAtom

\* C2: a group marked user-controlled by the drag listener keeps its
\* position through update(dt), for every tick during which a pointer
\* holds it, while the other groups may still move.
C2_UserControlledExclusion ==
  [][ lastOp'.op = "step" =>
        \A p \in Pointers :
          ( /\ pointers[p].dragMode = "pairExistingSpherical"
            /\ pointers[p].draggedParticle \in Range(molecule.groups) )
          => molecule'.position[pointers[p].draggedParticle]
               = molecule.position[pointers[p].draggedParticle] ]_vars

\* C2 witness: a VSEPR tick moved some group while a pointer held a radial
\* group that sits away from its ideal place
C2_Witness ==
  /\ lastOp.op = "step"
  /\ ~molecule.isReal
  /\ lastOp.moved # { }
  /\ \E p \in Pointers :
       /\ pointers[p].dragMode = "pairExistingSpherical"
       /\ pointers[p].draggedParticle \in Range(RadialGroups(molecule))
       /\ molecule.position[pointers[p].draggedParticle]
            # CentralTarget(molecule, pointers[p].draggedParticle)

\* the calls of the last update with the given operation, loop atom,
\* subject group and other group
CallsLike(op, atom, group, other) ==
  { i \in 1..Len(tick.calls) :
      /\ tick.calls[i].op = op
      /\ tick.calls[i].atom = atom
      /\ tick.calls[i].group = group
      /\ tick.calls[i].other = other }

\* C3: in one VSEPRMolecule.update tick, for every atom of the loop: the
\* central atom with more than one neighbor gets applyAttraction exactly
\* once, followed by one repulseFrom for every ordered pair of distinct
\* radial groups (never with the central atom as the repelled group);
\* another atom with more than one neighbor gets applyAngleAttractionRepulsion
\* and nothing else; for an atom with one neighbor or none no call is made.
C3_Dispatch ==
  ( tick.valid /\ ~tick.real ) =>
    LET radial   == Range(RadialGroups(molecule))
        multi(a) == GetNeighborCount(molecule, a) > 1
        atoms    == Range(Atoms(molecule))
    IN /\ \A i \in 1..Len(tick.calls) :
            /\ tick.calls[i].atom \in atoms
            /\ multi(tick.calls[i].atom)
            /\ IF tick.calls[i].atom = centralAtom
               THEN tick.calls[i].op \in { "applyAttraction", "repulseFrom" }
               ELSE tick.calls[i].op = "applyAngleAttractionRepulsion"
            /\ tick.calls[i].op = "repulseFrom" =>
                 /\ tick.calls[i].group \in radial
                 /\ tick.calls[i].other \in radial
                 /\ tick.calls[i].group # tick.calls[i].other
                 /\ tick.calls[i].group # centralAtom
                 /\ \E j \in 1..(i - 1) : tick.calls[j].op = "applyAttraction"
       /\ multi(centralAtom) =>
            /\ Cardinality(CallsLike("applyAttraction", centralAtom, NoGroup, NoGroup)) = 1
            /\ \A a \in radial, b \in radial :
                 a # b => Cardinality(CallsLike("repulseFrom", centralAtom, a, b)) = 1
       /\ \A a \in atoms \ { centralAtom } :
            multi(a) =>
              Cardinality(CallsLike("applyAngleAttractionRepulsion", a, NoGroup, NoGroup)) = 1

\* C3 witness: a tick of a molecule with a central atom of several
\* neighbors, a radial atom carrying a lone pair and a radial atom with
\* the central atom as its only neighbor
C3_Witness ==
  /\ tick.valid /\ ~tick.real
  /\ GetNeighborCount(molecule, centralAtom) > 1
  /\ \E a \in Range(RadialAtoms(molecule)) : GetNeighborCount(molecule, a) > 1
  /\ \E a \in Range(RadialAtoms(molecule)) : GetNeighborCount(molecule, a) = 1

\* the groups below g in the tree of m
Below(m, g) ==
  LET children(x) == { y \in NonCentral(m) : \E i \in ParentBonds(m, y) : m.bonds[i].b = x }
  IN children(g) \cup UNION { children(x) : x \in children(g) }

\* C4: removeGroup(group) removes the group, every group reachable only
\* through it and every bond incident to a removed group; after it none
\* of them is in the molecule's groups, atoms or bonds, and the rest stays.
C4_RemoveGroup ==
  [][ lastOp'.op = "removeGroup" =>
        LET gone == { lastOp'.group } \cup Below(molecule, lastOp'.group)
        IN /\ Range(molecule'.groups) = Range(molecule.groups) \ gone
           /\ Range(Atoms(molecule')) \cap gone = { }
           /\ \A i \in 1..Len(molecule'.bonds) :
                molecule'.bonds[i].a \notin gone /\ molecule'.bonds[i].b \notin gone
           /\ Range(molecule'.bonds) =
                { bd \in Range(molecule.bonds) : bd.a \notin gone /\ bd.b \notin gone } ]_vars

\* C4 witness: the removal of a radial atom took its terminal lone pair along
C4_Witness ==
  /\ lastOp.op = "removeGroup"
  /\ Cardinality({ i \in 1..Len(lastEvents) : lastEvents[i].kind = "groupRemoved" }) > 1

FreshRealMolecule ==
  molecule.isReal /\ lastOp.op \in { "new", "rebuildMolecule(true)" }

\* C6 as stated: a RealMolecule built from a RealMoleculeShape has its
\* bonded atoms exactly at the literal coordinates of the shape definition.
C6_LiteralPositions ==
  FreshRealMolecule =>
    \A i \in 1..Len(RadialAtoms(molecule)) :
      molecule.position[RadialAtoms(molecule)[i]] = TAB_2_MOLECULES[shape].atoms[i + 1].literal

\* C6 amended: a RealMolecule built from a RealMoleculeShape has one bonded
\* atom per bond of the shape, each in the direction of its literal
\* coordinates at the distance bondLengthOverride from the central atom;
\* only the central atom's lone pairs are computed, one per lone pair of
\* the shape's central atom, at the lone-pair distance.
C6_DirectionAtOverrideLength ==
  FreshRealMolecule =>
    LET realMoleculeShape == TAB_2_MOLECULES[shape]
        bonded            == RadialAtoms(molecule)
        lonePairs         == RadialLonePairs(molecule)
    IN /\ Len(bonded) = Len(realMoleculeShape.bonds)
       /\ \A i \in 1..Len(bonded) :
            molecule.position[bonded[i]] =
              Times(Normalized(realMoleculeShape.atoms[i + 1].literal),
                    realMoleculeShape.bondLengthOverride)
       /\ Len(lonePairs) = ShapeCentralAtom(realMoleculeShape).lonePairCount
       /\ \A i \in 1..Len(lonePairs) :
            Magnitude(molecule.position[lonePairs[i]]) = LONE_PAIR_DISTANCE

\* C6 witness: a freshly built RealMolecule with bonded atoms and central
\* lone pairs whose literal coordinates are not at the override length
C6_Witness ==
  /\ FreshRealMolecule
  /\ RadialLonePairs(molecule) # << >>
  /\ \E i \in 1..Len(RadialAtoms(molecule)) :
       Magnitude(TAB_2_MOLECULES[shape].atoms[i + 1].literal)
         # TAB_2_MOLECULES[shape].bondLengthOverride

\* every call of the tick that follows is an applyAngleAttractionRepulsion,
\* one for each atom with more than one neighbor
OnlyAngleCalls ==
  /\ \A i \in 1..Len(tick'.calls) : tick'.calls[i].op = "applyAngleAttractionRepulsion"
  /\ \A a \in Range(Atoms(molecule)) :
       Cardinality({ i \in 1..Len(tick'.calls) : tick'.calls[i].atom = a })
         = IF Len(GetNeighbors(molecule, a)) > 1 THEN 1 ELSE 0

\* every radial group sits where the real geometry puts it
AtRealGeometry ==
  \A g \in Range(RadialGroups(molecule)) : molecule.position[g] = CentralTarget(molecule, g)

C8_AtMostFifthOfSecond ==
  tick.valid => ( tick.dt <= 200 /\ tick.dt = Min(lastOp.dt, 200) )

\* C8 amended: update receives min(dt, 0.2) from the current
\* MoleculeShapesModel.step and min(dt, 1) from the earlier revision of
\* it, so at most 0.2 and 1 second respectively.
C8_CappedPerRevision ==
  tick.valid =>
    LET cap == IF build = "current" THEN 200 ELSE 1000
    IN tick.dt <= cap /\ tick.dt = Min(lastOp.dt, cap)

\* C8 witness: a frame longer than either cap was stepped
C8_Witness ==
  /\ tick.valid
  /\ lastOp.dt > 1000
  /\ tick.dt < lastOp.dt

\* clamp( log( error + 1 ) - 0.5, 0, 1 )
ClampedLog(error) ==
  LET l == Ln(error + SCALE) - 500
  IN IF l < 0 THEN 0 ELSE IF l > SCALE THEN SCALE ELSE l

\* errors the override is compared at
ErrorSamples == { 0, 500, 648, 1000, 1909, 2500, 3482, 4000, 6000 }

\* C9: in each VSEPRMolecule.update tick every repulseFrom call gets
\* clamp(log(error + 1) - 0.5, 0, 1), error being what applyAttraction
\* returned in that tick (the residual before the tick moved anything);
\* the value lies in [0, 1], is the same for every pair of the tick and
\* does not decrease when the error grows.
C9_Override ==
  [][ ( lastOp'.op = "step" /\ ~molecule.isReal
          /\ GetNeighborCount(molecule, centralAtom) > 1 ) =>
        /\ tick'.error = CentralError(molecule)
        /\ \A i \in 1..Len(tick'.calls) :
             tick'.calls[i].op = "repulseFrom" =>
               /\ tick'.calls[i].ratio = ClampedLog(tick'.error)
               /\ tick'.calls[i].ratio >= 0
               /\ tick'.calls[i].ratio <= SCALE
               /\ \A j \in 1..Len(tick'.calls) :
                    tick'.calls[j].op = "repulseFrom" =>
                      tick'.calls[j].ratio = tick'.calls[i].ratio
        /\ \A e \in ErrorSamples :
             /\ e <= tick'.error => TrueLengthsRatioOverride(e) <= tick'.ratio
             /\ e >= tick'.error => TrueLengthsRatioOverride(e) >= tick'.ratio
        /\ ( tick.valid /\ ~tick.real /\ tick.calls # << >> ) =>
             /\ tick.error <= tick'.error => tick.ratio <= tick'.ratio
             /\ tick.error >= tick'.error => tick.ratio >= tick'.ratio ]_vars

\* C9 witness: a tick that made repulseFrom calls with an override strictly
\* between 0 and 1
C9_Witness ==
  /\ tick.valid /\ ~tick.real
  /\ \E i \in 1..Len(tick.calls) : tick.calls[i].op = "repulseFrom"
  /\ tick.ratio > 0
  /\ tick.ratio < SCALE

HeldGroups ==
  { pointers[p].draggedParticle : p \in { q \in Pointers : pointers[q].dragMode = "pairExistingSpherical" } }

\* C11: every pair drag is ended exactly once, by the up or cancel of its
\* pointer: that step clears the group's userControlled (also when the group
\* is no longer in the molecule), takes one off draggedParticleCount and
\* leaves the pointer without a listener; the user-controlled groups are at
\* all times the groups held by dragging pointers, so once every pointer is
\* released no group is user-controlled, draggedParticleCount is 0 and
\* isRotating is false.
C11_ReleaseEndsDrag ==
  /\ [][ \A p \in Pointers :
           ( pointers[p].dragMode = "pairExistingSpherical" /\ pointers'[p] # pointers[p]
               /\ lastOp'.op = "endDrag" )
           => /\ pointers'[p] = IdlePointer
              /\ pointers[p].draggedParticle \notin userControlled'
              /\ draggedParticleCount' = draggedParticleCount - 1
              /\ \A q \in Pointers \ { p } : pointers'[q] = pointers[q] ]_vars
  /\ []( /\ userControlled = HeldGroups \ { ReplacedGroup }
         /\ draggedParticleCount = Cardinality({ p \in Pointers : pointers[p].dragMode = "pairExistingSpherical" })
         /\ isRotating <=> \E p \in Pointers : pointers[p].dragMode = "modelRotate"
         /\ ( \A p \in Pointers : pointers[p] = IdlePointer )
              => ( userControlled = { } /\ draggedParticleCount = 0 /\ ~isRotating ) )

\* C11 witness: the last pointer was released from a group that had been
\* removed from the molecule while it was dragged
C11_Witness ==
  /\ lastOp.op = "endDrag"
  /\ lastOp.group \in 1..MaxGroupId
  /\ lastOp.group \notin Range(molecule.groups)
  /\ \A p \in Pointers : pointers[p] = IdlePointer

C13_UnitVectors ==
  call.fn = "getConfiguration" =>
    LET unitVectors == call.result
    IN /\ Len(unitVectors) = call.numberOfGroups
       /\ \A i \in 1..Len(unitVectors) :
            Magnitude(unitVectors[i]) \in (SCALE - 1)..(SCALE + 1)
       /\ call.numberOfGroups >= 2 =>
            \A i, j \in 1..Len(unitVectors) : i # j => unitVectors[i] # unitVectors[j]

\* C13 witness: the configuration of the largest steric number was looked up
C13_Witness ==
  /\ call.fn = "getConfiguration"
  /\ call.numberOfGroups = 6
  /\ Len(call.result) = 6

\* C14: getMaximumBondLength of a VSEPRMolecule returns the
\* bondLengthOverride it was constructed with when one was given and
\* PairGroup.BONDED_PAIR_DISTANCE otherwise; of a RealMolecule it returns
\* undefined whatever the molecule's state.
C14_MaximumBondLength ==
  call.fn = "getMaximumBondLength" =>
    IF call.molecule.isReal THEN call.result = Undefined
    ELSE IF call.molecule.bondLengthOverride = Undefined
         THEN call.result = BONDED_PAIR_DISTANCE
         ELSE call.result = call.molecule.bondLengthOverride

\* C14 witness: a VSEPRMolecule constructed with the override 0 and holding
\* bonds was asked
C14_Witness ==
  /\ call.fn = "getMaximumBondLength"
  /\ ~call.molecule.isReal
  /\ call.molecule.bondLengthOverride = 0
  /\ call.molecule.bonds # << >>
  /\ call.result = 0

\* C16: a particle drag and a rotation of the molecule never go on together:
\* isRotating is false whenever draggedParticleCount > 0, at most one
\* pointer rotates the molecule, and a down that arrives while isRotating
\* is true starts neither a drag nor a rotation.
C16_DragOrRotate ==
  /\ []( /\ ~( isRotating /\ draggedParticleCount > 0 )
         /\ Cardinality({ p \in Pointers : pointers[p].dragMode = "modelRotate" }) <= 1
         /\ ~( ( \E p \in Pointers : pointers[p].dragMode = "modelRotate" )
                /\ ( \E p \in Pointers : pointers[p].dragMode = "pairExistingSpherical" ) ) )
  /\ [][ ( lastOp'.op = "down" /\ isRotating )
           => /\ lastOp'.failed
              /\ pointers' = pointers
              /\ userControlled' = userControlled
              /\ draggedParticleCount' = draggedParticleCount
              /\ isRotating' = isRotating ]_vars

\* C16 witness: a second pointer went down over a free pair while the first
\* was rotating the molecule, and was ignored
C16_Witness ==
  /\ lastOp.op = "down"
  /\ lastOp.failed
  /\ isRotating
  /\ draggedParticleCount = 0
  /\ view.radialViews # << >>
  /\ \E p \in Pointers : pointers[p] = IdlePointer

\* C17: every predefined RealMoleculeShape (all entries of TAB_2_MOLECULES
\* and TAB_2_BASIC_MOLECULES) has centralAtomCount + centralAtom.lonePairCount
\* at most 6, so the configuration looked up for it is never the undefined
\* out-of-range result.
C17_StericNumberInTable ==
  call.fn = "lookupConfiguration"
    => /\ call.centralAtomCount + call.lonePairCount <= 6
       /\ call.result.numberOfGroups = call.centralAtomCount + call.lonePairCount
       /\ call.result.defined

\* C17 witness: the lookup for XeF4, four bonds and two lone pairs, the
\* largest steric number of the table
C17_Witness ==
  /\ call.fn = "lookupConfiguration"
  /\ call.displayName = "XeF4"
  /\ call.centralAtomCount = 4
  /\ call.lonePairCount = 2
  /\ call.result.numberOfGroups = 6

\* the groups of the shape just asked for list every lone pair before every atom
LonePairsFirst ==
  \A i, j \in 1..Len(call.isLonePair) : ( i < j /\ call.isLonePair[j] ) => call.isLonePair[i]

\* the groups of the shape just asked for list every atom before every lone pair
AtomsFirst ==
  \A i, j \in 1..Len(call.isLonePair) : ( i < j /\ ~call.isLonePair[j] ) => ~call.isLonePair[i]

\* the shape holds each neighbor of its atom once, and as many ideal
\* orientations as neighbors
HoldsNeighbors ==
  /\ Range(call.result.groups) = call.neighbors
  /\ Len(call.result.groups) = Cardinality(call.neighbors)
  /\ Len(call.result.idealOrientations) = Len(call.result.groups)

\* in the central shape of a RealMolecule the i-th ideal orientation is the
\* direction the i-th group was placed in
OrientationsBelong ==
  ( call.isReal /\ call.atom = centralAtom )
    => \A i \in 1..Len(call.result.groups) :
         Times(call.result.idealOrientations[i], call.bondLength[i]) = call.position[i]

\* C18 as stated: every LocalShape holds its neighbor PairGroups sorted
\* lone-pairs-first, with the i-th ideal orientation belonging to the i-th
\* neighbor; in particular the LocalShape the RealMolecule constructor
\* builds for the central atom lists its lone pairs before its bonded atoms.
C18_LonePairsFirst ==
  call.fn = "getLocalShape" => ( HoldsNeighbors /\ OrientationsBelong /\ LonePairsFirst )

\* C18 amended: every LocalShape holds the neighbors of its atom with one
\* ideal orientation each; the shapes built by getLocalVSEPRShape are sorted
\* lone-pairs-first, while the shape the RealMolecule constructor builds for
\* the central atom lists the bonded atoms first, in the order of the
\* shape's bonds, and the lone pairs after them, the i-th ideal orientation
\* being the direction the i-th of these groups was placed in.
C18_AtomsFirstInRealShape ==
  call.fn = "getLocalShape"
    => /\ HoldsNeighbors
       /\ OrientationsBelong
       /\ IF call.isReal /\ call.atom = centralAtom THEN AtomsFirst ELSE LonePairsFirst

\* C18 witness: the central shape of a real molecule with bonded atoms and
\* lone pairs around the central atom
C18_Witness ==
  /\ call.fn = "getLocalShape"
  /\ call.isReal
  /\ call.atom = centralAtom
  /\ \E i, j \in 1..Len(call.isLonePair) : call.isLonePair[i] /\ ~call.isLonePair[j]

\* C19: addRadialAtom sets all bond lengths to be the same: after any
\* sequence of addRadialAtom calls on a shape, every radial atom's position
\* has magnitude bondLengthOverride (5.5 times the length passed to the
\* constructor) with its original direction kept, and every bond's length
\* equals bondLengthOverride, whatever the magnitudes of the coordinates
\* the atoms were created with.
C19_SameBondLengths ==
  call.fn = "addRadialAtom"
    => LET s == call.result
       IN /\ s.bondLengthOverride * 10 = call.length * 55
          /\ Len(s.atoms) = Len(call.positions) + 1
          /\ Len(s.bonds) = Len(call.positions)
          /\ s.centralAtomCount = Len(call.positions)
          /\ \A i \in 1..Len(call.positions) :
               /\ Magnitude(s.atoms[i + 1].position) = s.bondLengthOverride
               /\ Normalized(s.atoms[i + 1].position) = Normalized(call.positions[i])
               /\ s.atoms[i + 1].orientation = Normalized(call.positions[i])
               /\ s.bonds[i].atom = i + 1
               /\ s.bonds[i].length = s.bondLengthOverride

\* C19 witness: a shape given atoms created in one direction at two
\* different magnitudes, neither of them the override length, and a third
\* atom in another direction
C19_Witness ==
  /\ call.fn = "addRadialAtom"
  /\ Len(call.positions) = 3
  /\ Normalized(call.positions[1]) = Normalized(call.positions[2])
  /\ Magnitude(call.positions[1]) # Magnitude(call.positions[2])
  /\ Normalized(call.positions[3]) # Normalized(call.positions[1])
  /\ \A i \in 1..3 : Magnitude(call.positions[i]) # call.result.bondLengthOverride
  /\ call.result.atoms[2].position = call.result.atoms[3].position

\* the operations on the molecule that notify of a changed bond
BondOperations == { "addGroupAndBond", "addTerminalLonePairs", "removeGroup" }

LastApplied == moleculeShapesColors.applied[Len(moleculeShapesColors.applied)]

\* C21 as stated: after applyProfile(p) every color key holds the value
\* defined for p when the profile defines one and otherwise the key's
\* 'default' value, regardless of which profiles were applied before;
\* applying the same profile a second time changes no color and (in the
\* newer version) reports none.
C21_ProfileOrDefault ==
  /\ []( moleculeShapesColors.applied # << >>
         => \A key \in DOMAIN moleculeShapesColors.value :
              moleculeShapesColors.value[key] =
                IF LastApplied \in DOMAIN ColorsOf(build)[key]
                THEN ColorsOf(build)[key][LastApplied]
                ELSE ColorsOf(build)[key].default )
  /\ [][ ( /\ moleculeShapesColors.applied # << >>
           /\ moleculeShapesColors'.applied = Append(moleculeShapesColors.applied, LastApplied) )
         => /\ moleculeShapesColors'.value = moleculeShapesColors.value
            /\ build = "current" => moleculeShapesColors'.reported = << >> ]_vars

\* C22: LocalMaterial / LocalTexture / LocalGeometry keep one copy per
\* renderer: for any sequence of get(renderer) calls, renderers and copies
\* have the same length and renderers holds no duplicate, the same renderer
\* always receives the identical object it received the first time, two
\* different renderers never receive the same object, and the factory /
\* clone is invoked exactly once per distinct renderer.
C22_OneCopyPerRenderer ==
  /\ []( /\ Len(local.renderers) = Len(local.copies)
         /\ \A i, j \in 1..Len(local.renderers) :
              i # j => /\ local.renderers[i] # local.renderers[j]
                       /\ local.copies[i].id # local.copies[j].id
         /\ \A i \in 1..Len(local.copies) : local.copies[i].id # local.master.id
         /\ call.fn # "none"
              => /\ Range(local.renderers) = call.requested
                 /\ local.created = Cardinality(call.requested)
         /\ call.fn = "get"
              => \E i \in 1..Len(local.renderers) :
                   /\ local.renderers[i] = call.renderer
                   /\ local.copies[i].id = call.result.id )
  /\ [][ \A i \in 1..Len(local.renderers) :
           /\ local'.renderers[i] = local.renderers[i]
           /\ local'.copies[i].id = local.copies[i].id ]_vars

\* C22 witness: a renderer asked again, after another renderer was served,
\* for the copy it was given first
C22_Witness ==
  /\ call.fn = "get"
  /\ Len(local.renderers) >= 2
  /\ local.renderers[1] = call.renderer
  /\ local.copies[1].id = call.result.id
  /\ local.created = Len(local.renderers)

\* C23: after any interleaving of LocalMaterial.get(renderer) and
\* setColor(color) calls, the master material and every per-renderer copy
\* have the same color, namely the color of the most recent setColor; a
\* copy created after a setColor does not keep the older color.
C23_CopiesFollowColor ==
  local.kind = "LocalMaterial"
    => /\ \A i \in 1..Len(local.copies) : local.copies[i].color = local.master.color
       /\ call.fn = "setColor" => local.master.color = ToNumber(call.color)
       /\ call.fn = "get" => call.result.color = local.master.color

\* C23 witness: a copy made after a setColor, beside a copy made before
\* it, both holding the color that was set
C23_Witness ==
  /\ local.kind = "LocalMaterial"
  /\ call.fn = "get"
  /\ Len(local.copies) = 2
  /\ call.result.id = local.copies[2].id
  /\ local.master.color # WHITE
  /\ local.copies[1].color = local.master.color
  /\ local.copies[2].color = local.master.color

\* the pointers that are dragging a pair
PairDraggers == { p \in Pointers : pointers[p].dragMode = "pairExistingSpherical" }

\* the pointers whose dragged group went away with a replaced molecule; such
\* a group stays marked until its pointer is released
HoldersOfReplaced == { p \in PairDraggers : pointers[p].draggedParticle = ReplacedGroup }

\* C24: in every reachable state of the drag listener, draggedParticleCount
\* equals the number of pointers currently in pair-drag mode, which equals
\* the number of groups this listener has marked userControlled; it is
\* never negative, and a group is dragged by at most one pointer at a time
\* (a down on a group that is already user-controlled starts no second drag
\* of it).
C24_CountMatchesDrags ==
  /\ []( /\ draggedParticleCount = Cardinality(PairDraggers)
         /\ draggedParticleCount = Cardinality(userControlled) + Cardinality(HoldersOfReplaced)
         /\ userControlled = { pointers[p].draggedParticle : p \in PairDraggers \ HoldersOfReplaced }
         /\ draggedParticleCount >= 0
         /\ \A p, q \in PairDraggers \ HoldersOfReplaced :
              p # q => pointers[p].draggedParticle # pointers[q].draggedParticle )
  /\ [][ /\ \A p \in Pointers :
              ( p \notin PairDraggers /\ pointers'[p].dragMode = "pairExistingSpherical" )
                => /\ pointers'[p].draggedParticle \notin userControlled
                   /\ pointers'[p].draggedParticle \in userControlled'
         /\ ( lastOp'.op = "down" /\ lastOp'.group \in userControlled )
              => /\ pointers' = pointers
                 /\ draggedParticleCount' = draggedParticleCount
                 /\ userControlled' = userControlled ]_vars

\* C24 witness: the second pointer went down on the group the first one is
\* dragging, and no second drag began
C24_Witness ==
  /\ lastOp.op = "down"
  /\ lastOp.failed
  /\ lastOp.group \in userControlled
  /\ draggedParticleCount = 1
  /\ Cardinality(PairDraggers) = 1
  /\ \E p \in PairDraggers : pointers[p].draggedParticle = lastOp.group

\* C24 witness: two pointers drag two groups
C24_WitnessTwoDrags ==
  /\ draggedParticleCount = 2
  /\ Cardinality(userControlled) = 2
  /\ Cardinality(PairDraggers) = 2

\* the bond-angle views a MoleculeView shows: none once it is disposed
LiveAngleViews == IF screenView.disposed THEN << >> ELSE screenView.angleViews

\* the atom views a MoleculeView shows
LiveAtomViews == IF screenView.disposed THEN << >> ELSE screenView.atomViews

\* C25: after any sequence of MoleculeView.addGroup / removeGroup / dispose
\* on a screen view with its pool of 15 angle labels, the number of labels
\* checked out equals the number of bond-angle views, which equals
\* n(n-1)/2 for the n atom views present; pooled plus checked-out labels
\* always total 15 with no label in the pool twice, so with at most 6 atoms
\* checkOutLabel never finds the pool empty and returnLabel's
\* not-already-pooled assertion never fails.
C25_LabelPool ==
  /\ Cardinality(screenView.out) = Len(LiveAngleViews)
  /\ screenView.out = { LiveAngleViews[i].label : i \in 1..Len(LiveAngleViews) }
  /\ 2 * Len(LiveAngleViews) = Len(LiveAtomViews) * ( Len(LiveAtomViews) - 1 )
  /\ Len(screenView.angleLabels) + Cardinality(screenView.out) = LabelCount
  /\ \A i, j \in 1..Len(screenView.angleLabels) :
       i # j => screenView.angleLabels[i] # screenView.angleLabels[j]
  /\ Range(screenView.angleLabels) \cap screenView.out = { }
  /\ NoLabel \notin Range(screenView.angleLabels) \cup screenView.out
  /\ ~screenView.failed

\* C25 witness: six atom views hold the whole pool, after a removal had
\* returned labels in another order than they were checked out
C25_Witness ==
  /\ Len(LiveAtomViews) = MaxAtomViews
  /\ screenView.angleLabels = << >>
  /\ Len(LiveAngleViews) = LabelCount
  /\ screenView.angleViews[1].label # LabelCount

\* what rebuilding from scratch gives for the current shape and view
BuiltFromShape ==
  RebuildMolecule(RealMolecule(TAB_2_MOLECULES[shape]), TAB_2_MOLECULES[shape], showRealView,
                  TRUE, "identity", FALSE)

\* C26: in RealMoleculesModel, after construction and after every completed
\* change of showRealView, change of realMoleculeShape, or reset(), the
\* molecule held by moleculeProperty is a RealMolecule exactly when
\* showRealView is true (a VSEPRMolecule otherwise) and it is built from the
\* current realMoleculeShape; after reset() showRealView is true and the
\* shape is the starting shape.
C26_MoleculeMatchesSettings ==
  shape # 0
    => /\ molecule.isReal = showRealView
       /\ molecule.groups = BuiltFromShape.groups
       /\ molecule.isLonePair = BuiltFromShape.isLonePair
       /\ Range(molecule.bonds) = Range(BuiltFromShape.bonds)
       /\ molecule.bondLengthOverride = BuiltFromShape.bondLengthOverride
       /\ lastOp.op = "reset" => /\ showRealView
                                 /\ shape = 1
                                 /\ molecule = RealMolecule(TAB_2_MOLECULES[1])

\* C26 witness: the model view of another shape than the starting one,
\* reached by a switch of the view while a pointer held a group
C26_Witness ==
  /\ shape = 2
  /\ ~showRealView
  /\ ~molecule.isReal
  /\ lastOp.op = "rebuildMolecule(false)"
  /\ \E p \in Pointers : pointers[p].draggedParticle = ReplacedGroup

\* C26 witness: the state a reset leaves
C26_WitnessReset ==
  /\ lastOp.op = "reset"
  /\ molecule.isReal
  /\ \E p \in Pointers : pointers[p].draggedParticle = ReplacedGroup

====
